---- MODULE Spec2Model ----
(***************************************************************************)
(* Member counting of the dc-counter bot variants.                         *)
(*                                                                         *)
(* The guild (its role catalogue and its member collection) and the        *)
(* configuration read from the environment are the inputs; the handlers    *)
(* modelled are the !count command and the scheduled updateChannelNames    *)
(* pass of the claimed-set variant (index6.js, second program) and of the  *)
(* cached-snapshot variant (index8.js), and utils.getEffectiveRole; the    *)
(* scheduled pass of index6.js under member events, the handlers of        *)
(* index7.js on their shared MemberStats, and the handlers of part_002.    *)
(*                                                                         *)
(* discord.js facts the handlers rely on:                                  *)
(*   - member.roles.cache always holds the @everyone role (position 0),    *)
(*     placed after the member's other roles, which keep the order of      *)
(*     guild.roles.cache;                                                  *)
(*   - member.roles.highest is the role of greatest position, the lower    *)
(*     id winning between roles of equal position;                         *)
(*   - Collection.sort is stable, Collection.first() of an empty           *)
(*     collection is undefined.                                            *)
(***************************************************************************)
EXTENDS Integers, Sequences, FiniteSets, TLC

VARIABLES
    roles,       \* guild.roles.cache: [pos, managed, order]
    members,     \* guild.members.cache: member id -> [bot, roles]
    channels,    \* guild.channels.cache: the ids of the channels that exist
    config,      \* process.env: the role lists, ignoredRoleId, verifiedRoleId
    cmd,         \* index6.js: the !count handler of the claimed-set variant
    lastReply,   \* index6.js: the last message the !count handler sent
    resolved,    \* the last result of utils.getEffectiveRole: [id, role]
    counted7,    \* index7.js: the last result of getRoleMemberCount: [roleId, count]
    now,         \* index8.js, part_002: Date.now(), in ms
    cache,       \* index8.js, part_002: cache.members.get(guild.id), cache.lastUpdate
    job,         \* index8.js, part_002: the running updateChannelNames pass
    channelName, \* index8.js, part_002: channel id -> the name last set on it
    cmd8,        \* index8.js, part_002: the running count command and its message
    events,      \* the number of member events the gateway has delivered
    job6,        \* index6.js: the running updateChannelNames pass
    stats,       \* index7.js: the global MemberStats object
    job7,        \* index7.js: the running updateChannels pass
    cmd7,        \* index7.js: the running !count handlers, by message
    passes,      \* index8.js: the updateChannelNames calls in flight, by slot
    waiting,     \* index8.js: the slots awaiting a rename or a pause, oldest first
    passCount,   \* index8.js: the number of updateChannelNames calls so far
    requests,    \* RateLimiter.requests: key -> timestamps
    cooldowns,   \* CommandHandler.cooldowns / command.lastUsed: user id -> timestamps
    handling,    \* the commandHandler.handle calls in flight, by slot
    lastExecuted,\* user id -> the time command.execute was last called for the user
    accepted,    \* key -> the times canMakeRequest returned true for the key
    messagesLeft,\* the number of command messages still to arrive
    replied,     \* the last rejection text commandHandler.handle replied with
    writeQueue,  \* Logger.writeQueue
    isWriting,   \* Logger.isWriting
    appending,   \* Logger: the batches of the fs.appendFile calls in flight
    logFile,     \* Logger: the messages appended to the log file, in file order
    lost,        \* Logger: the messages of the batches whose appendFile failed
    enqueued     \* Logger: the number of writeToFile calls so far

guildVars == <<roles, members, channels, config>>
vars6 == <<cmd, lastReply>>
resolverVars == <<resolved, counted7>>
vars8 == <<now, cache, job, channelName, cmd8>>
vars67 == <<events, job6, stats, job7, cmd7>>
overlapVars == <<passes, waiting, passCount>>
commandVars == <<requests, cooldowns, handling, lastExecuted, accepted, messagesLeft, replied>>
loggerVars == <<writeQueue, isWriting, appending, logFile, lost, enqueued>>
componentVars == <<overlapVars, commandVars, loggerVars>>
vars == <<guildVars, vars6, resolverVars, vars8, vars67, componentVars>>

\* ------------------------------------------------------------------ bounds

\* Number of members in guild.members.cache.
NumMembers == 2

\* Number of clock steps taken after start-up.
MaxTicks == 2

\* ------------------------------------------------------------- JS values

\* JavaScript's undefined (an unset environment variable, first() of an
\* empty collection, a local not yet assigned).
None == -1

\* The id of the @everyone role (the guild id, older than every role id).
Everyone == 1

\* ------------------------------------------------------------ collections

RECURSIVE Filter(_, _)
\* Collection.filter / Array.filter with the predicate given as a set.
Filter(s, keep) ==
    IF s = <<>> THEN <<>>
    ELSE IF Head(s) \in keep THEN <<Head(s)>> \o Filter(Tail(s), keep)
         ELSE Filter(Tail(s), keep)

\* Collection.first(): undefined for an empty collection.
First(s) == IF s = <<>> THEN None ELSE Head(s)

RECURSIVE InsertByPosition(_, _, _)
\* One step of a stable sort by descending position: r, which came after
\* every element of sorted, goes behind the elements whose position is not
\* smaller.
InsertByPosition(pos, sorted, r) ==
    IF sorted = <<>> THEN <<r>>
    ELSE IF pos[Head(sorted)] >= pos[r]
         THEN <<Head(sorted)>> \o InsertByPosition(pos, Tail(sorted), r)
         ELSE <<r>> \o sorted

RECURSIVE SortByPositionDesc(_, _)
\* .sort((a, b) => b.position - a.position): stable, descending position.
SortByPositionDesc(pos, s) ==
    IF s = <<>> THEN <<>>
    ELSE InsertByPosition(pos, SortByPositionDesc(pos, SubSeq(s, 1, Len(s) - 1)), s[Len(s)])

RECURSIVE SumSeq(_)
SumSeq(s) == IF s = <<>> THEN 0 ELSE Head(s) + SumSeq(Tail(s))

Range(s) == {s[i] : i \in DOMAIN s}

\* ----------------------------------------------------------------- roles

\* The ids of guild.roles.cache.
GuildRoleIds(cat) == DOMAIN cat.pos

\* member.roles.cache: the member's roles in the order of guild.roles.cache,
\* @everyone last.
MemberRolesCache(cat, member) ==
    Filter(cat.order, member.roles \ {Everyone}) \o <<Everyone>>

\* Role.comparePositionTo: by position, then the lower id is the higher role.
ComparePositions(cat, r1, r2) ==
    IF cat.pos[r1] = cat.pos[r2] THEN r2 - r1 ELSE cat.pos[r1] - cat.pos[r2]

\* member.roles.highest
HighestRole(cat, member) ==
    CHOOSE r \in member.roles : \A o \in member.roles : ComparePositions(cat, r, o) >= 0

\* -------------------------------------------------- claimed-set variant

\* The next-highest role taken without removing the ignored role.
NextHighestRoleKeepingIgnored(cat, member, ignoredRoleId) ==
    First(SortByPositionDesc(cat.pos,
        Filter(MemberRolesCache(cat, member),
               {r \in GuildRoleIds(cat) : ~cat.managed[r]})))

\* memberRoles.filter(r => r.id !== ignoredRoleId && !r.managed)
\*            .sort((a, b) => b.position - a.position).first()
NextHighestRole(cat, member, ignoredRoleId) ==
    First(SortByPositionDesc(cat.pos,
        Filter(MemberRolesCache(cat, member),
               {r \in GuildRoleIds(cat) : r # ignoredRoleId /\ ~cat.managed[r]})))

\* CountsMember without the countedMembers.has(member.id) test.
CountsMemberIgnoringClaimed(cat, member, id, roleId, verifiedRoleId, ignoredRoleId, countedMembers) ==
    IF member.bot THEN FALSE
    ELSE IF verifiedRoleId \notin member.roles THEN FALSE
    ELSE LET highestRole == HighestRole(cat, member) IN
         IF highestRole = ignoredRoleId
         THEN LET nextHighestRole == NextHighestRole(cat, member, ignoredRoleId)
              IN  nextHighestRole # None /\ nextHighestRole = roleId
         ELSE highestRole = roleId

\* CountsMember without the verified-role test.
CountsMemberUnverifiedToo(cat, member, id, roleId, verifiedRoleId, ignoredRoleId, countedMembers) ==
    IF member.bot \/ id \in countedMembers THEN FALSE
    ELSE LET highestRole == HighestRole(cat, member) IN
         IF highestRole = ignoredRoleId
         THEN LET nextHighestRole == NextHighestRole(cat, member, ignoredRoleId)
              IN  nextHighestRole # None /\ nextHighestRole = roleId
         ELSE highestRole = roleId

\* CountsMember testing the highest role against roleId before testing it
\* against the ignored role.
CountsMemberRoleFirst(cat, member, id, roleId, verifiedRoleId, ignoredRoleId, countedMembers) ==
    IF member.bot \/ id \in countedMembers THEN FALSE
    ELSE IF verifiedRoleId \notin member.roles THEN FALSE
    ELSE LET highestRole == HighestRole(cat, member) IN
         IF highestRole = roleId THEN TRUE
         ELSE IF highestRole = ignoredRoleId
         THEN LET nextHighestRole == NextHighestRole(cat, member, ignoredRoleId)
              IN  nextHighestRole # None /\ nextHighestRole = roleId
         ELSE FALSE

\* CountsMember testing the verified role only behind the ignored role.
CountsMemberVerifiedBehindIgnored(cat, member, id, roleId, verifiedRoleId, ignoredRoleId, countedMembers) ==
    IF member.bot \/ id \in countedMembers THEN FALSE
    ELSE LET highestRole == HighestRole(cat, member) IN
         IF highestRole = ignoredRoleId
         THEN IF verifiedRoleId \notin member.roles THEN FALSE
              ELSE LET nextHighestRole == NextHighestRole(cat, member, ignoredRoleId)
                   IN  nextHighestRole # None /\ nextHighestRole = roleId
         ELSE highestRole = roleId

\* CountsMember taking an unset ignoredRoleId as matching every highest role.
CountsMemberUnsetMatches(cat, member, id, roleId, verifiedRoleId, ignoredRoleId, countedMembers) ==
    IF member.bot \/ id \in countedMembers THEN FALSE
    ELSE IF verifiedRoleId \notin member.roles THEN FALSE
    ELSE LET highestRole == HighestRole(cat, member) IN
         IF highestRole = ignoredRoleId \/ ignoredRoleId = None
         THEN LET nextHighestRole == NextHighestRole(cat, member, ignoredRoleId)
              IN  nextHighestRole # None /\ nextHighestRole = roleId
         ELSE highestRole = roleId

\* The body of the members.forEach callback of countMembersWithHighestRole:
\* TRUE when the member is counted for roleId (count++, and its id added to
\* roleMemberIds and to countedMembers).
CountsMember(cat, member, id, roleId, verifiedRoleId, ignoredRoleId, countedMembers) ==
    IF member.bot \/ id \in countedMembers THEN FALSE
    ELSE IF verifiedRoleId \notin member.roles THEN FALSE
    ELSE LET highestRole == HighestRole(cat, member) IN
         IF highestRole = ignoredRoleId
         THEN LET nextHighestRole == NextHighestRole(cat, member, ignoredRoleId)
              IN  nextHighestRole # None /\ nextHighestRole = roleId
         ELSE highestRole = roleId

RECURSIVE AscendingIds(_)
AscendingIds(ids) ==
    IF ids = {} THEN <<>>
    ELSE LET least == CHOOSE id \in ids : \A o \in ids : id <= o
         IN  <<least>> \o AscendingIds(ids \ {least})

\* guild.members.cache iterates in insertion order: here by ascending id
\* (a member who joins gets an id greater than every earlier one).
MemberOrder(mem) == AscendingIds(DOMAIN mem)

RECURSIVE ForEachMember(_, _, _, _, _, _, _)
\* members.forEach(...) of countMembersWithHighestRole over the ids still to
\* visit; acc is [count, memberIds, countedMembers].
ForEachMember(mem, cat, roleId, verifiedRoleId, ignoredRoleId, ids, acc) ==
    IF ids = <<>> THEN acc
    ELSE LET id == Head(ids) IN
         IF CountsMember(cat, mem[id], id, roleId, verifiedRoleId, ignoredRoleId,
                         acc.countedMembers)
         THEN ForEachMember(mem, cat, roleId, verifiedRoleId, ignoredRoleId, Tail(ids),
                  [count |-> acc.count + 1,
                   memberIds |-> acc.memberIds \cup {id},
                   countedMembers |-> acc.countedMembers \cup {id}])
         ELSE ForEachMember(mem, cat, roleId, verifiedRoleId, ignoredRoleId, Tail(ids), acc)

\* countMembersWithHighestRole(members, roleId, verifiedRoleId, countedMembers):
\* returns { count, memberIds }; countedMembers is the caller's set after the
\* call (the function adds to it in place).
CountMembersWithHighestRole(mem, cat, roleId, verifiedRoleId, ignoredRoleId, countedMembers) ==
    ForEachMember(mem, cat, roleId, verifiedRoleId, ignoredRoleId, MemberOrder(mem),
        [count |-> 0, memberIds |-> {}, countedMembers |-> countedMembers])

RECURSIVE Pow10(_)
Pow10(n) == IF n = 0 THEN 1 ELSE 10 * Pow10(n - 1)

\* ((part / total) * 100).toFixed(digits): the number scaled by 10^digits and
\* rounded, or the text JavaScript prints for 0/0 and for n/0.
ToFixedPercent(part, total, digits) ==
    IF total = 0
    THEN [kind |-> IF part = 0 THEN "NaN" ELSE "Infinity", scaled |-> 0]
    ELSE [kind |-> "number",
          scaled |-> (2 * part * 100 * Pow10(digits) + total) \div (2 * total)]

\* guild.members.cache.filter(member => !member.user.bot).size
TotalMembers(mem) == Cardinality({id \in DOMAIN mem : ~mem[id].bot})

\* guild.members.cache.filter(member =>
\*     !member.user.bot && !member.roles.cache.has(verifiedRoleId)).size
UnverifiedMembers(mem, verifiedRoleId) ==
    Cardinality({id \in DOMAIN mem : ~mem[id].bot /\ verifiedRoleId \notin mem[id].roles})

\* A claimed set kept from one pass to the next.
NewCountedMembersKept(previous) == previous

\* let globalCountedMembers = new Set(): every pass starts from an empty
\* set, whatever the previous pass left in its own.
NewCountedMembers(previous) == {}

RECURSIVE CountRolesLoopStopping(_, _, _, _, _, _)
\* The role loop leaving at the first role id the guild does not have.
CountRolesLoopStopping(mem, cat, cfg, totalMembers, i, acc) ==
    IF i > Len(cfg.countRoles) THEN acc
    ELSE LET roleId == cfg.countRoles[i] IN
         IF roleId \notin GuildRoleIds(cat)
         THEN acc
         ELSE LET r == CountMembersWithHighestRole(mem, cat, roleId, cfg.verifiedRoleId,
                           cfg.ignoredRoleId, acc.globalCountedMembers)
              IN  CountRolesLoopStopping(mem, cat, cfg, totalMembers, i + 1,
                      [perRole |-> Append(acc.perRole,
                             [roleId |-> roleId, count |-> r.count,
                              memberIds |-> r.memberIds,
                              percentage |-> ToFixedPercent(r.count, totalMembers, 3)]),
                       globalCountedMembers |-> r.countedMembers \cup r.memberIds,
                       totalRoleCount |-> acc.totalRoleCount + r.count])

RECURSIVE CountRolesLoop(_, _, _, _, _, _)
\* for (const roleId of countRoles) of the !count handler, from index i on;
\* acc is [perRole, globalCountedMembers, totalRoleCount].
CountRolesLoop(mem, cat, cfg, totalMembers, i, acc) ==
    IF i > Len(cfg.countRoles) THEN acc
    ELSE LET roleId == cfg.countRoles[i] IN
         IF roleId \notin GuildRoleIds(cat)
         THEN CountRolesLoop(mem, cat, cfg, totalMembers, i + 1, acc)
         ELSE LET r == CountMembersWithHighestRole(mem, cat, roleId, cfg.verifiedRoleId,
                           cfg.ignoredRoleId, acc.globalCountedMembers)
              IN  CountRolesLoop(mem, cat, cfg, totalMembers, i + 1,
                      [perRole |-> Append(acc.perRole,
                             [roleId |-> roleId, count |-> r.count,
                              memberIds |-> r.memberIds,
                              percentage |-> ToFixedPercent(r.count, totalMembers, 3)]),
                       globalCountedMembers |-> r.countedMembers \cup r.memberIds,
                       totalRoleCount |-> acc.totalRoleCount + r.count])

\* ------------------------------------------------------------ the inputs

\* Role catalogues: @everyone and three roles of rising position, all plain
\* or with role 3 managed (an integration's role).
Catalogues ==
    { [pos |-> (1 :> 0 @@ 2 :> 1 @@ 3 :> 2 @@ 4 :> 3),
       managed |-> (1 :> FALSE @@ 2 :> FALSE @@ 3 :> m3 @@ 4 :> FALSE),
       order |-> <<1, 2, 3, 4>>] : m3 \in BOOLEAN }

\* Role ids a configuration may name: the roles of the catalogue other than
\* @everyone, and an id no role of the guild has.
ConfigurableRoleIds == {2, 3, 4, 9}

\* A member as the handlers read it: member.user.bot and the ids of
\* member.roles.cache, @everyone always among them.
MemberShapes(cat) ==
    [bot : BOOLEAN, roles : {rs \cup {Everyone} : rs \in SUBSET (GuildRoleIds(cat) \ {Everyone})}]

\* The configured role lists tried: a single id, two in both orders, with a
\* repeated id, with an id the guild does not have before or between real
\* ones, and all three roles.
RoleLists ==
    { <<3>>, <<3, 4>>, <<4, 3>>, <<3, 3>>, <<9, 3>>, <<4, 9, 2>>, <<2, 3, 4>> }

Configs ==
    [countRoles : RoleLists,
     ignoredRoleId : {None, 3, 4},
     verifiedRoleId : {2}]

\* The handlers read a member's id only to tell members apart, so of the
\* snapshots that differ by a renaming of the members one is kept: the one
\* whose members come in rising ShapeCode.
ShapeCode(member) ==
    (IF member.bot THEN 8 ELSE 0)
        + (IF 2 \in member.roles THEN 1 ELSE 0)
        + (IF 3 \in member.roles THEN 2 ELSE 0)
        + (IF 4 \in member.roles THEN 4 ELSE 0)

Snapshots(cat) ==
    {mem \in [1..NumMembers -> MemberShapes(cat)] :
        \A i \in 1..(NumMembers - 1) : ShapeCode(mem[i]) <= ShapeCode(mem[i + 1])}

\* --------------------------------------- index8.js: cached-snapshot variant

\* cache.maxAge
MaxAge == 3600000

\* The clock advances in steps of 40 minutes.
TickMs == 40 * 60 * 1000

\* cache.refresh: the simplified members stored for the guild,
\* { id, roles: Array.from(member.roles.cache.keys()), isBot }.
SimplifiedMembers(mem, cat) ==
    [id \in DOMAIN mem |->
        [id |-> id, roles |-> MemberRolesCache(cat, mem[id]), isBot |-> mem[id].bot]]

\* cache.isStale treating a snapshot stored exactly maxAge ago as stale.
IsStaleAtMaxAge(c, t) == c.lastUpdate = None \/ t - c.lastUpdate >= MaxAge

\* cache.isStale
IsStale(c, t) == c.lastUpdate = None \/ t - c.lastUpdate > MaxAge

\* cache.members.get(guild.id), when the Map has the guild's entry. The Map
\* is kept as the set of its values: empty, or the one guild's members.
Cached(c) == CHOOSE snapshot \in c.members : TRUE

\* cache.getMembers answers from the cache (no fetch).
CacheHit(c, t) == c.members # {} /\ ~IsStale(c, t)

\* Array.includes
Includes(arr, x) == \E i \in DOMAIN arr : arr[i] = x

\* utils.calculatePercentage
CalculatePercentage(part, total) == ToFixedPercent(part, total, 3)

\* updateChannelNames: the keys of membersWithRole for roleId.
MembersWithRole8(snapshot, roleId, ignoredRoleId) ==
    {id \in DOMAIN snapshot :
        Includes(snapshot[id].roles, roleId) /\ ~Includes(snapshot[id].roles, ignoredRoleId)}

RECURSIVE RoleChannelUpdates(_, _, _, _)
\* updateChannelNames: for (let i = 0; i < config.roles.length; i++), from
\* index i on: the updates pushed. Channel i is config.channels[i - 1].
RoleChannelUpdates(snapshot, cfg, chans, i) ==
    IF i > Len(cfg.roles) THEN <<>>
    ELSE IF i \notin chans THEN RoleChannelUpdates(snapshot, cfg, chans, i + 1)
    ELSE LET membersWithRole == MembersWithRole8(snapshot, cfg.roles[i], cfg.ignoredRoleId)
         IN  << [channel |-> i, roleId |-> cfg.roles[i],
                 membersWithRole |-> membersWithRole,
                 count |-> Cardinality(membersWithRole)] >>
                 \o RoleChannelUpdates(snapshot, cfg, chans, i + 1)

\* updateChannelNames from the members to the filled channelUpdates queue.
\* Channel 0 is config.totalMemberCountChannelId.
ChannelUpdates(snapshot, cfg, chans) ==
    LET humanMembers == {id \in DOMAIN snapshot : ~snapshot[id].isBot}
    IN  (IF 0 \in chans
         THEN << [channel |-> 0, roleId |-> None, membersWithRole |-> humanMembers,
                  count |-> Cardinality(humanMembers)] >>
         ELSE <<>>)
        \o RoleChannelUpdates(snapshot, cfg, chans, 1)

\* const rolesToProcess = isNaN(n) ? config.roles.length : Math.min(n, config.roles.length)
RolesToProcess(n, cfg) ==
    IF n = None THEN Len(cfg.roles)
    ELSE IF n < Len(cfg.roles) THEN n ELSE Len(cfg.roles)

RECURSIVE CountLines8(_, _, _, _, _, _)
\* The count command's role loop from index i on: the lines of the response.
CountLines8(snapshot, cfg, cat, totalMembersCount, rolesToProcess, i) ==
    IF i > rolesToProcess THEN <<>>
    ELSE IF cfg.roles[i] \notin GuildRoleIds(cat)
    THEN CountLines8(snapshot, cfg, cat, totalMembersCount, rolesToProcess, i + 1)
    ELSE LET membersWithRole ==
                 {id \in DOMAIN snapshot :
                     Includes(snapshot[id].roles, cfg.roles[i]) /\ ~snapshot[id].isBot}
             count == Cardinality(membersWithRole)
         IN  << [roleId |-> cfg.roles[i], membersWithRole |-> membersWithRole,
                 count |-> count,
                 percentage |-> CalculatePercentage(count, totalMembersCount)] >>
                 \o CountLines8(snapshot, cfg, cat, totalMembersCount, rolesToProcess, i + 1)

\* The count command from the members to the response it sends.
CountResponse8(snapshot, cfg, cat, n) ==
    LET totalMembersCount == Cardinality({id \in DOMAIN snapshot : ~snapshot[id].isBot})
        unverifiedMembers ==
            {id \in DOMAIN snapshot :
                ~Includes(snapshot[id].roles, cfg.verifiedRoleId) /\ ~snapshot[id].isBot}
    IN  [kind |-> "counts",
         totalMembers |-> totalMembersCount,
         unverifiedMembers |-> unverifiedMembers,
         unverified |-> Cardinality(unverifiedMembers),
         unverifiedPercentage |->
             CalculatePercentage(Cardinality(unverifiedMembers), totalMembersCount),
         lines |-> CountLines8(snapshot, cfg, cat, totalMembersCount,
                               RolesToProcess(n, cfg), 1)]

JobIdle == [pc |-> "idle", channelUpdates |-> <<>>, next |-> 1]

Cmd8Idle == [pc |-> "idle", n |-> None, response |-> [kind |-> "none"]]

\* index8.js before its first pass and command. The clock starts after 0:
\* Date.now() is never 0.
Idle8 ==
    /\ now = TickMs
    /\ cache = [members |-> {}, lastUpdate |-> None]
    /\ job = JobIdle
    /\ channelName = [c \in {} |-> 0]
    /\ cmd8 = Cmd8Idle

\* index6.js: no updateChannelNames pass running. total and counts are the
\* counts the last pass put into channel names.
Job6Idle ==
    [pc |-> "idle", i |-> 0, countedMembers |-> {}, pending |-> None,
     total |-> None, counts |-> <<>>]

\* index7.js: new MemberStats() (the fields the handlers use).
NewMemberStats == [totalMembers |-> 0, countedMembers |-> {}, roleStats |-> {}]

\* index7.js: no updateChannels pass running.
Job7Idle == [pc |-> "idle", i |-> 0, snapshot |-> <<>>, pending |-> None]

\* index7.js: the !count messages that may be in the handler at one time.
CommandSlots == {"first", "second"}

Cmd7Idle == [pc |-> "idle", response |-> [kind |-> "none"]]

\* No member event yet, index6.js's scheduled pass and index7.js idle.
Idle67 ==
    /\ events = 0
    /\ job6 = Job6Idle
    /\ stats = NewMemberStats
    /\ job7 = Job7Idle
    /\ cmd7 = [k \in CommandSlots |-> Cmd7Idle]

\* index8.js: the updateChannelNames calls that may be in flight at one time.
PassSlots == {"first", "second"}

\* No updateChannelNames call in the slot.
PassIdle == [pc |-> "idle", channelUpdates |-> <<>>, next |-> 1, renamed |-> {}, started |-> 0]

\* No overlapping pass, no command message handled, nothing logged.
ComponentsIdle ==
    /\ passes = [p \in PassSlots |-> PassIdle]
    /\ waiting = <<>>
    /\ passCount = 0
    /\ requests = <<>>
    /\ cooldowns = <<>>
    /\ handling = <<>>
    /\ lastExecuted = <<>>
    /\ accepted = <<>>
    /\ messagesLeft = 0
    /\ replied = "none"
    /\ writeQueue = <<>>
    /\ isWriting = FALSE
    /\ appending = <<>>
    /\ logFile = <<>>
    /\ lost = {}
    /\ enqueued = 0

\* ------------------------------------------------------ the !count handler

CmdIdle ==
    [pc |-> "idle", totalMembers |-> 0, unverifiedMembers |-> 0, perRole |-> <<>>,
     globalCountedMembers |-> {}, totalRoleCount |-> 0, response |-> [kind |-> "none"]]

\* Nothing resolved yet.
ResolverIdle ==
    /\ resolved = [id |-> None, role |-> None]
    /\ counted7 = [roleId |-> None, count |-> 0]

Init ==
    /\ roles \in Catalogues
    /\ members \in Snapshots(roles)
    /\ channels = {}
    /\ config \in Configs
    /\ cmd = CmdIdle
    /\ lastReply = [kind |-> "none"]
    /\ ResolverIdle
    /\ Idle8
    /\ Idle67
    /\ ComponentsIdle

\* messageCreate with a "!count" message from an allowed channel and role, up
\* to `await guild.members.fetch()`. (Any other message returns before the
\* handler touches anything.)
CountReceived ==
    /\ cmd.pc = "idle"
    /\ cmd' = [cmd EXCEPT !.pc = "fetching"]
    /\ UNCHANGED <<componentVars, guildVars, lastReply, resolverVars, vars8, vars67>>

\* The fetch resolved: the handler runs without a pause from the totals to
\* `await message.channel.send(response)`.
CountFetched ==
    /\ cmd.pc = "fetching"
    /\ LET totalMembers == TotalMembers(members)
           unverifiedMembers == UnverifiedMembers(members, config.verifiedRoleId)
           verifiedCount == totalMembers - unverifiedMembers
           loop == CountRolesLoop(members, roles, config, totalMembers, 1,
                       [perRole |-> <<>>,
                        globalCountedMembers |-> NewCountedMembers(cmd.globalCountedMembers),
                        totalRoleCount |-> 0])
       IN  cmd' = [pc |-> "sending",
                   totalMembers |-> totalMembers,
                   unverifiedMembers |-> unverifiedMembers,
                   perRole |-> loop.perRole,
                   globalCountedMembers |-> loop.globalCountedMembers,
                   totalRoleCount |-> loop.totalRoleCount,
                   response |->
                       [kind |-> "counts",
                        totalMembers |-> totalMembers,
                        verified |-> verifiedCount,
                        verifiedPercentage |-> ToFixedPercent(verifiedCount, totalMembers, 2),
                        unverified |-> unverifiedMembers,
                        unverifiedPercentage |-> ToFixedPercent(unverifiedMembers, totalMembers, 2),
                        lines |-> [i \in DOMAIN loop.perRole |->
                                     [roleId |-> loop.perRole[i].roleId,
                                      count |-> loop.perRole[i].count,
                                      percentage |-> loop.perRole[i].percentage]]]]
    /\ UNCHANGED <<componentVars, guildVars, lastReply, resolverVars, vars8, vars67>>

\* The fetch rejected: the catch block sends the error text instead.
CountFetchFailed ==
    /\ cmd.pc = "fetching"
    /\ cmd' = [cmd EXCEPT !.pc = "sending", !.response = [kind |-> "error"]]
    /\ UNCHANGED <<componentVars, guildVars, lastReply, resolverVars, vars8, vars67>>

\* message.channel.send delivered the response; the handler returns.
CountSent ==
    /\ cmd.pc = "sending"
    /\ lastReply' = cmd.response
    /\ cmd' = [cmd EXCEPT !.pc = "idle"]
    /\ UNCHANGED <<componentVars, guildVars, resolverVars, vars8, vars67>>

Next ==
    \/ CountReceived
    \/ CountFetched
    \/ CountFetchFailed
    \/ CountSent

Spec == Init /\ [][Next]_vars

\* ------------------------------------------- index8.js: the two handlers

\* The guilds of the index8.js runs: the plain catalogue, members holding
\* roles 2 and 3 at most, the total channel (0) possibly missing.
Snapshots8(cat) == {mem \in Snapshots(cat) : \A id \in DOMAIN mem : 4 \notin mem[id].roles}

ChannelSets == { {0, 1, 2}, {1, 2} }

\* validateConfig requires IGNORED_ROLE and VERIFIED_ROLE to be set.
Configs8 ==
    [roles : { <<3>>, <<9, 3>> },
     ignoredRoleId : {2, 4},
     verifiedRoleId : {2}]

Init8 ==
    /\ roles \in {cat \in Catalogues : ~cat.managed[3]}
    /\ members \in Snapshots8(roles)
    /\ channels \in ChannelSets
    /\ config \in Configs8
    /\ cmd = CmdIdle
    /\ lastReply = [kind |-> "none"]
    /\ ResolverIdle
    /\ now = TickMs
    /\ cache = [members |-> {}, lastUpdate |-> None]
    /\ job = JobIdle
    /\ channelName = [c \in channels |-> [count |-> None]]
    /\ cmd8 = Cmd8Idle
    /\ Idle67
    /\ ComponentsIdle

\* Time passes.
Tick ==
    /\ now < TickMs * (1 + MaxTicks)
    /\ now' = now + TickMs
    /\ UNCHANGED <<componentVars, guildVars, vars6, resolverVars, cache, job, channelName, cmd8, vars67>>

\* The pass once channelUpdates is filled: the first rename, or the end of
\* the pass when nothing was queued.
JobWithUpdates(updates) ==
    IF updates = <<>> THEN JobIdle
    ELSE [pc |-> "renaming", channelUpdates |-> updates, next |-> 1]

\* The pass after the update at job.next is dealt with.
JobAfterUpdate ==
    IF job.next >= Len(job.channelUpdates) THEN JobIdle
    ELSE [job EXCEPT !.pc = "renaming", !.next = job.next + 1]

\* A cron tick (or start-up) calls updateChannelNames: cache.getMembers
\* answers from the cache and the pass fills its queue, or starts a fetch.
ScheduledStart ==
    /\ job.pc = "idle"
    /\ job' = IF CacheHit(cache, now)
              THEN JobWithUpdates(ChannelUpdates(Cached(cache), config, channels))
              ELSE [JobIdle EXCEPT !.pc = "fetching"]
    /\ UNCHANGED <<componentVars, guildVars, vars6, resolverVars, now, cache, channelName, cmd8, vars67>>

\* guild.members.fetch resolved inside cache.refresh: the cache is set and
\* the pass fills its queue from the members returned.
ScheduledFetched ==
    /\ job.pc = "fetching"
    /\ LET simplifiedMembers == SimplifiedMembers(members, roles) IN
        /\ cache' = [members |-> {simplifiedMembers}, lastUpdate |-> now]
        /\ job' = JobWithUpdates(ChannelUpdates(simplifiedMembers, config, channels))
    /\ UNCHANGED <<componentVars, guildVars, vars6, resolverVars, now, channelName, cmd8, vars67>>

\* A failed fetch after which the pass renames the channels with the counts
\* of an empty member collection.
ScheduledFetchFailedRenaming ==
    /\ job.pc = "fetching"
    /\ job' = JobWithUpdates(ChannelUpdates([id \in {} |-> id], config, channels))
    /\ UNCHANGED <<componentVars, guildVars, vars6, resolverVars, now, cache, channelName, cmd8, vars67>>

\* The fetch rejected: cache.refresh rethrows, the pass logs and ends.
ScheduledFetchFailed ==
    /\ job.pc = "fetching"
    /\ job' = JobIdle
    /\ UNCHANGED <<componentVars, guildVars, vars6, resolverVars, now, cache, channelName, cmd8, vars67>>

\* channel.setName resolved for the update at job.next; the pass waits 1 s.
ScheduledRenamed ==
    /\ job.pc = "renaming"
    /\ LET update == job.channelUpdates[job.next] IN
        channelName' = [channelName EXCEPT ![update.channel] = [count |-> update.count]]
    /\ job' = [job EXCEPT !.pc = "pausing"]
    /\ UNCHANGED <<componentVars, guildVars, vars6, resolverVars, now, cache, cmd8, vars67>>

\* The 1 s pause is over: the next update, or the end of the pass.
ScheduledPaused ==
    /\ job.pc = "pausing"
    /\ job' = JobAfterUpdate
    /\ UNCHANGED <<componentVars, guildVars, vars6, resolverVars, now, cache, channelName, cmd8, vars67>>

\* A rejected channel.setName after which the pass gives up its remaining
\* updates.
ScheduledRenameFailedAborting ==
    /\ job.pc = "renaming"
    /\ job' = JobIdle
    /\ UNCHANGED <<componentVars, guildVars, vars6, resolverVars, now, cache, channelName, cmd8, vars67>>

\* channel.setName rejected: utils.updateChannel throws, the loop logs and
\* goes on with the next update without pausing.
ScheduledRenameFailed ==
    /\ job.pc = "renaming"
    /\ job' = JobAfterUpdate
    /\ UNCHANGED <<componentVars, guildVars, vars6, resolverVars, now, cache, channelName, cmd8, vars67>>

\* The count command's execute is called for `!count` or `!count 1` from an
\* allowed role, up to cache.getMembers.
Count8Start ==
    /\ cmd8.pc = "idle"
    /\ \E n \in {None, 1} :
          cmd8' = IF CacheHit(cache, now)
                  THEN [pc |-> "sending", n |-> n,
                        response |-> CountResponse8(Cached(cache), config, roles, n)]
                  ELSE [pc |-> "fetching", n |-> n, response |-> [kind |-> "none"]]
    /\ UNCHANGED <<componentVars, guildVars, vars6, resolverVars, now, cache, job, channelName, vars67>>

\* The command's fetch resolved: the cache is set and the response built.
Count8Fetched ==
    /\ cmd8.pc = "fetching"
    /\ LET simplifiedMembers == SimplifiedMembers(members, roles) IN
        /\ cache' = [members |-> {simplifiedMembers}, lastUpdate |-> now]
        /\ cmd8' = [cmd8 EXCEPT !.pc = "sending",
                        !.response = CountResponse8(simplifiedMembers, config, roles, cmd8.n)]
    /\ UNCHANGED <<componentVars, guildVars, vars6, resolverVars, now, job, channelName, vars67>>

\* The command's fetch rejected: the catch block replies with the error text.
Count8FetchFailed ==
    /\ cmd8.pc = "fetching"
    /\ cmd8' = [cmd8 EXCEPT !.pc = "sending", !.response = [kind |-> "error"]]
    /\ UNCHANGED <<componentVars, guildVars, vars6, resolverVars, now, cache, job, channelName, vars67>>

\* The response (or the error text) was delivered; execute returns.
Count8Sent ==
    /\ cmd8.pc = "sending"
    /\ cmd8' = Cmd8Idle
    /\ UNCHANGED <<componentVars, guildVars, vars6, resolverVars, now, cache, job, channelName, vars67>>

Next8 ==
    \/ Tick
    \/ ScheduledStart
    \/ ScheduledFetched
    \/ ScheduledFetchFailed
    \/ ScheduledRenamed
    \/ ScheduledPaused
    \/ ScheduledRenameFailed
    \/ Count8Start
    \/ Count8Fetched
    \/ Count8FetchFailed
    \/ Count8Sent

Spec8 == Init8 /\ [][Next8]_vars

\* index8.js with one tracked role and every channel present: the runs in
\* which the member fetch fails or succeeds at each of its calls.
Init8OneRole ==
    /\ Init8
    /\ channels = {0, 1, 2}
    /\ config.roles = <<3>>

Spec8OneRole == Init8OneRole /\ [][Next8]_vars

\* index8.js with roles 3 and 4 both tracked, every channel present, and
\* members holding any of the roles: the runs in which a member holds
\* several tracked roles.
Init8Tracked ==
    /\ roles \in {cat \in Catalogues : ~cat.managed[3]}
    /\ members \in Snapshots(roles)
    /\ channels = {0, 1, 2}
    /\ config \in [roles : { <<3, 4>> }, ignoredRoleId : {2, 4}, verifiedRoleId : {2}]
    /\ cmd = CmdIdle
    /\ lastReply = [kind |-> "none"]
    /\ ResolverIdle
    /\ now = TickMs
    /\ cache = [members |-> {}, lastUpdate |-> None]
    /\ job = JobIdle
    /\ channelName = [c \in channels |-> [count |-> None]]
    /\ cmd8 = Cmd8Idle
    /\ Idle67
    /\ ComponentsIdle

Spec8Tracked == Init8Tracked /\ [][Next8]_vars

\* index8.js with roles 3 and 4 tracked and every member a non-bot holder of
\* role 3 without role 2: the runs of a pass of three renames.
Init8Renames ==
    /\ Init8Tracked
    /\ \A id \in DOMAIN members :
          ~members[id].bot /\ 3 \in members[id].roles /\ 2 \notin members[id].roles

Spec8Renames == Init8Renames /\ [][Next8]_vars

\* index8.js after it has run for a while: the cache holds the guild's
\* snapshot, stored exactly maxAge ago or one millisecond earlier.
Init8Warm ==
    /\ roles \in {cat \in Catalogues : ~cat.managed[3]}
    /\ members \in Snapshots8(roles)
    /\ channels = {0, 1, 2}
    /\ config \in Configs8
    /\ config.roles = <<3>>
    /\ cmd = CmdIdle
    /\ lastReply = [kind |-> "none"]
    /\ ResolverIdle
    /\ now = 2 * TickMs
    /\ \E age \in {MaxAge, MaxAge + 1} :
          cache = [members |-> {SimplifiedMembers(members, roles)},
                   lastUpdate |-> now - age]
    /\ job = JobIdle
    /\ channelName = [c \in channels |-> [count |-> None]]
    /\ cmd8 = Cmd8Idle
    /\ Idle67
    /\ ComponentsIdle

\* index8.js from start-up or with a snapshot already cached.
Spec8Warm == (Init8OneRole \/ Init8Warm) /\ [][Next8]_vars

\* ------------------------------------ index8.js: overlapping scheduled passes

\* Number of updateChannelNames calls (start-up and cron ticks).
MaxPasses == 2

\* The guild and the configuration of the overlapping runs; the cache is
\* empty, or holds the snapshot stored exactly maxAge ago, before the member
\* of greatest id joined.
Init8Overlap ==
    /\ roles \in {cat \in Catalogues : ~cat.managed[3]}
    /\ members \in Snapshots8(roles)
    /\ channels = {0, 1, 2}
    /\ config \in Configs8
    /\ cmd = CmdIdle
    /\ lastReply = [kind |-> "none"]
    /\ ResolverIdle
    /\ now = 2 * TickMs
    /\ \/ cache = [members |-> {}, lastUpdate |-> None]
       \/ cache = [members |->
                       {SimplifiedMembers([id \in 1..(NumMembers - 1) |-> members[id]], roles)},
                   lastUpdate |-> now - MaxAge]
    /\ job = JobIdle
    /\ channelName = [c \in channels |-> [count |-> None]]
    /\ cmd8 = Cmd8Idle
    /\ Idle67
    /\ ComponentsIdle

\* s without its entries equal to p.
Without(s, p) == SelectSeq(s, LAMBDA q : q # p)

\* q entered the await it is in before p entered its own.
EarlierWaiting(q, p) ==
    \E i, j \in DOMAIN waiting : i < j /\ waiting[i] = q /\ waiting[j] = p

\* The channel of the update pass p is at.
CurrentChannel(p) == passes[p].channelUpdates[passes[p].next].channel

\* channel.setName requests on one channel are served in the order they
\* were made: p's is served once no earlier one on its channel is pending.
RenameServed(p) ==
    \A q \in PassSlots :
        (q # p /\ passes[q].pc = "renaming" /\ EarlierWaiting(q, p))
            => CurrentChannel(q) # CurrentChannel(p)

\* setTimeout callbacks of equal delay run in the order they were set.
TimerDue(p) ==
    \A q \in PassSlots : ~(q # p /\ passes[q].pc = "pausing" /\ EarlierWaiting(q, p))

\* The pass once channelUpdates is filled: the first rename, or the end of
\* the pass when nothing was queued.
PassWithUpdates(pass, updates) ==
    IF updates = <<>> THEN [pass EXCEPT !.pc = "done"]
    ELSE [pass EXCEPT !.pc = "renaming", !.channelUpdates = updates, !.next = 1]

\* The pass after the update at next is dealt with.
PassAfterUpdate(pass) ==
    IF pass.next >= Len(pass.channelUpdates) THEN [pass EXCEPT !.pc = "done"]
    ELSE [pass EXCEPT !.pc = "renaming", !.next = pass.next + 1]

\* The slots awaiting, after p's await ended and p went on as `pass`.
WaitingAfter(p, pass) ==
    IF pass.pc \in {"renaming", "pausing"}
    THEN Append(Without(waiting, p), p)
    ELSE Without(waiting, p)

\* A cron tick (or start-up) calls updateChannelNames, whatever the earlier
\* calls are doing: cache.getMembers answers from the cache and the pass
\* fills its queue, or starts a fetch.
PassStart(p) ==
    /\ passes[p].pc \in {"idle", "done"}
    /\ passCount < MaxPasses
    /\ passCount' = passCount + 1
    /\ LET fresh == [PassIdle EXCEPT !.started = passCount + 1]
           pass == IF CacheHit(cache, now)
                   THEN PassWithUpdates(fresh,
                            ChannelUpdates(Cached(cache), config, channels))
                   ELSE [fresh EXCEPT !.pc = "fetching"]
       IN  /\ passes' = [passes EXCEPT ![p] = pass]
           /\ waiting' = WaitingAfter(p, pass)
    /\ UNCHANGED <<guildVars, vars6, resolverVars, vars8, vars67, commandVars, loggerVars>>

\* guild.members.fetch resolved inside cache.refresh: the cache is set and
\* the pass fills its queue from the members returned.
PassFetched(p) ==
    /\ passes[p].pc = "fetching"
    /\ LET simplifiedMembers == SimplifiedMembers(members, roles)
           pass == PassWithUpdates(passes[p],
                       ChannelUpdates(simplifiedMembers, config, channels))
       IN  /\ cache' = [members |-> {simplifiedMembers}, lastUpdate |-> now]
           /\ passes' = [passes EXCEPT ![p] = pass]
           /\ waiting' = WaitingAfter(p, pass)
    /\ UNCHANGED <<guildVars, vars6, resolverVars, now, job, channelName, cmd8, vars67,
                   passCount, commandVars, loggerVars>>

\* The fetch rejected: cache.refresh rethrows, the pass logs and ends.
PassFetchFailed(p) ==
    /\ passes[p].pc = "fetching"
    /\ passes' = [passes EXCEPT ![p].pc = "done"]
    /\ UNCHANGED <<guildVars, vars6, resolverVars, vars8, vars67, waiting, passCount,
                   commandVars, loggerVars>>

\* channel.setName resolved for the update the pass is at; the pass waits 1 s.
PassRenamed(p) ==
    /\ passes[p].pc = "renaming"
    /\ RenameServed(p)
    /\ LET update == passes[p].channelUpdates[passes[p].next]
           pass == [passes[p] EXCEPT !.pc = "pausing",
                                     !.renamed = @ \cup {update.channel}]
       IN  /\ channelName' = [channelName EXCEPT ![update.channel] = [count |-> update.count]]
           /\ passes' = [passes EXCEPT ![p] = pass]
           /\ waiting' = WaitingAfter(p, pass)
    /\ UNCHANGED <<guildVars, vars6, resolverVars, now, cache, job, cmd8, vars67,
                   passCount, commandVars, loggerVars>>

\* channel.setName rejected: utils.updateChannel throws, the loop logs and
\* goes on with the next update without pausing.
PassRenameFailed(p) ==
    /\ passes[p].pc = "renaming"
    /\ RenameServed(p)
    /\ LET pass == PassAfterUpdate(passes[p])
       IN  /\ passes' = [passes EXCEPT ![p] = pass]
           /\ waiting' = WaitingAfter(p, pass)
    /\ UNCHANGED <<guildVars, vars6, resolverVars, vars8, vars67, passCount,
                   commandVars, loggerVars>>

\* The 1 s pause is over: the next update, or the end of the pass.
PassPaused(p) ==
    /\ passes[p].pc = "pausing"
    /\ TimerDue(p)
    /\ LET pass == PassAfterUpdate(passes[p])
       IN  /\ passes' = [passes EXCEPT ![p] = pass]
           /\ waiting' = WaitingAfter(p, pass)
    /\ UNCHANGED <<guildVars, vars6, resolverVars, vars8, vars67, passCount,
                   commandVars, loggerVars>>

Next8Overlap ==
    \/ Tick
    \/ \E p \in PassSlots : PassStart(p)
    \/ \E p \in PassSlots : PassFetched(p)
    \/ \E p \in PassSlots : PassFetchFailed(p)
    \/ \E p \in PassSlots : PassRenamed(p)
    \/ \E p \in PassSlots : PassRenameFailed(p)
    \/ \E p \in PassSlots : PassPaused(p)

Spec8Overlap == Init8Overlap /\ [][Next8Overlap]_vars

\* --------------------------- RateLimiter and CommandHandler (command gating)

\* new RateLimiter(): timeWindow
TimeWindow == 60000

\* new RateLimiter(): maxRequests
MaxRequests == 10

\* The cooldown the count command is registered with.
Cooldown == 5000

\* CommandHandler.cleanup keeps the cooldown timestamps younger than this.
CooldownRetention == 3600000

\* Number of command messages of a run that watches the cooldown.
MaxMessages == 3

\* Number of command messages beyond maxRequests of a run that watches the
\* rate limiter.
ExtraMessages == 2

\* The times, in ms after start, at which Date.now() is read: 4999 ms apart
\* and less (under the cooldown), 5000 ms, 59999 ms and 60000 ms apart.
Instants == <<0, 4999, 5000, 59999, 60000>>

\* map.get(key) || dflt
MapGet(map, key, dflt) == IF key \in DOMAIN map THEN map[key] ELSE dflt

\* map.set(key, value)
MapSet(map, key, value) ==
    [k \in DOMAIN map \cup {key} |-> IF k = key THEN value ELSE map[k]]

\* map.delete(key) for the keys whose value is empty.
MapWithoutEmpty(map) == [k \in {key \in DOMAIN map : map[key] # <<>>} |-> map[k]]

\* timestamps.filter(time => now - time < window)
ValidTimestamps(timestamps, t, window) ==
    SelectSeq(timestamps, LAMBDA time : t - time < window)

\* canMakeRequest pushing now also when it rejects.
CanMakeRequestRecordingRejected(reqs, key, t) ==
    LET validTimestamps == ValidTimestamps(MapGet(reqs, key, <<>>), t, TimeWindow) IN
    [allowed |-> Len(validTimestamps) < MaxRequests,
     requests |-> MapSet(reqs, key, Append(validTimestamps, t))]

\* canMakeRequest rejecting only above maxRequests.
CanMakeRequestOffByOne(reqs, key, t) ==
    LET validTimestamps == ValidTimestamps(MapGet(reqs, key, <<>>), t, TimeWindow) IN
    IF Len(validTimestamps) > MaxRequests
    THEN [allowed |-> FALSE, requests |-> reqs]
    ELSE [allowed |-> TRUE, requests |-> MapSet(reqs, key, Append(validTimestamps, t))]

\* RateLimiter.canMakeRequest(key) at time t: the result and this.requests
\* after the call.
CanMakeRequest(reqs, key, t) ==
    LET validTimestamps == ValidTimestamps(MapGet(reqs, key, <<>>), t, TimeWindow) IN
    IF Len(validTimestamps) >= MaxRequests
    THEN [allowed |-> FALSE, requests |-> reqs]
    ELSE [allowed |-> TRUE, requests |-> MapSet(reqs, key, Append(validTimestamps, t))]

\* RateLimiter.cleanup()
CleanupRequests(reqs, t) ==
    MapWithoutEmpty([k \in DOMAIN reqs |-> ValidTimestamps(reqs[k], t, TimeWindow)])

\* index8.js checkCooldown returning true without recording the time.
CheckCooldown8NotRecording(cds, userId, cooldown, t) ==
    IF cooldown = 0 THEN [allowed |-> TRUE, cooldowns |-> cds]
    ELSE LET validTimestamps == ValidTimestamps(MapGet(cds, userId, <<>>), t, cooldown) IN
         [allowed |-> Len(validTimestamps) = 0, cooldowns |-> cds]

\* index8.js: CommandHandler.checkCooldown(userId, command) at time t: the
\* result and this.cooldowns after the call.
CheckCooldown8(cds, userId, cooldown, t) ==
    IF cooldown = 0 THEN [allowed |-> TRUE, cooldowns |-> cds]
    ELSE LET validTimestamps == ValidTimestamps(MapGet(cds, userId, <<>>), t, cooldown) IN
         IF Len(validTimestamps) > 0
         THEN [allowed |-> FALSE, cooldowns |-> cds]
         ELSE [allowed |-> TRUE, cooldowns |-> MapSet(cds, userId, Append(validTimestamps, t))]

\* part_002: CommandHandler.checkCooldown(userId, command) at time t: the
\* result and command.lastUsed after the call.
CheckCooldown2(lastUsedMap, userId, cooldown, t) ==
    IF cooldown = 0 THEN [allowed |-> TRUE, cooldowns |-> lastUsedMap]
    ELSE LET lastUsed == MapGet(lastUsedMap, userId, 0) IN
         IF t - lastUsed < cooldown
         THEN [allowed |-> FALSE, cooldowns |-> lastUsedMap]
         ELSE [allowed |-> TRUE, cooldowns |-> MapSet(lastUsedMap, userId, t)]

\* index9.js: commandHandler.canExecute(userId, command) at time t: the
\* result and this.cooldowns after the call, the user's inner Map kept as
\* the time under its one key (the one command registered).
CanExecute(cds, userId, cooldown, t) ==
    IF cooldown = 0 THEN [allowed |-> TRUE, cooldowns |-> cds]
    ELSE LET lastUsed == MapGet(cds, userId, 0) IN
         IF t - lastUsed < cooldown
         THEN [allowed |-> FALSE, cooldowns |-> cds]
         ELSE [allowed |-> TRUE, cooldowns |-> MapSet(cds, userId, t)]

\* The cooldown check of the program run.
CooldownCheck(handler, cds, userId, cooldown, t) ==
    IF handler = "index8.js" THEN CheckCooldown8(cds, userId, cooldown, t)
    ELSE IF handler = "part_002" THEN CheckCooldown2(cds, userId, cooldown, t)
    ELSE CanExecute(cds, userId, cooldown, t)

\* CommandHandler.cleanup(): the cooldowns Map afterwards.
CleanupCooldowns(cds, t) ==
    MapWithoutEmpty([k \in DOMAIN cds |-> ValidTimestamps(cds[k], t, CooldownRetention)])

\* No handle call in the slot.
HandleIdle == [pc |-> "idle", user |-> None, allowed |-> FALSE]

\* The program after start-up: which program runs, the cooldown the command
\* is registered with, the users who send it, the messages that may be in
\* the handler at one time and the number of messages to come.
InitCommands(handlers, cooldownValues, authors, slots, messages) ==
    /\ roles \in {cat \in Catalogues : ~cat.managed[3]}
    /\ members = [id \in 1..NumMembers |-> [bot |-> FALSE, roles |-> {Everyone}]]
    /\ channels = {}
    /\ config \in [handler : handlers, cooldown : cooldownValues, authors : {authors}]
    /\ cmd = CmdIdle
    /\ lastReply = [kind |-> "none"]
    /\ ResolverIdle
    /\ Idle8
    /\ Idle67
    /\ passes = [p \in PassSlots |-> PassIdle]
    /\ waiting = <<>>
    /\ passCount = 0
    /\ requests = <<>>
    /\ cooldowns = <<>>
    /\ handling = [s \in slots |-> HandleIdle]
    /\ lastExecuted = <<>>
    /\ accepted = <<>>
    /\ messagesLeft = messages
    /\ replied = "none"
    /\ writeQueue = <<>>
    /\ isWriting = FALSE
    /\ appending = <<>>
    /\ logFile = <<>>
    /\ lost = {}
    /\ enqueued = 0

\* Date.now() moves on to the next instant.
Elapse ==
    /\ \E i \in 1..(Len(Instants) - 1) :
          /\ now = TickMs + Instants[i]
          /\ now' = TickMs + Instants[i + 1]
    /\ UNCHANGED <<guildVars, vars6, resolverVars, cache, job, channelName, cmd8, vars67,
                   overlapVars, commandVars, loggerVars>>

\* The handle call after its cooldown check for user u returned r: execute
\* is called, or the handler replies that the user must wait.
AfterCooldownCheck(s, u, r) ==
    /\ cooldowns' = r.cooldowns
    /\ IF r.allowed
       THEN /\ handling' = [handling EXCEPT ![s] = [pc |-> "executing", user |-> u,
                                                    allowed |-> TRUE]]
            /\ lastExecuted' = MapSet(lastExecuted, u, now)
            /\ replied' = replied
       ELSE /\ handling' = [handling EXCEPT ![s] = [pc |-> "replying", user |-> u,
                                                    allowed |-> FALSE]]
            /\ lastExecuted' = lastExecuted
            /\ replied' = "wait"

\* messageCreate with the command from user u, handle up to its first
\* await: in index8.js and part_002 rateLimiter.canMakeRequest has run and
\* its promise is awaited; in index9.js canExecute has run and execute or
\* the reply is awaited.
MessageReceived(s, u) ==
    /\ handling[s].pc = "idle"
    /\ messagesLeft > 0
    /\ u \in config.authors
    /\ messagesLeft' = messagesLeft - 1
    /\ IF config.handler = "index9.js"
       THEN /\ AfterCooldownCheck(s, u, CanExecute(cooldowns, u, config.cooldown, now))
            /\ UNCHANGED <<requests, accepted>>
       ELSE LET r == CanMakeRequest(requests, u, now) IN
            /\ requests' = r.requests
            /\ accepted' = IF r.allowed
                           THEN MapSet(accepted, u, Append(MapGet(accepted, u, <<>>), now))
                           ELSE accepted
            /\ handling' = [handling EXCEPT ![s] = [pc |-> "limited", user |-> u,
                                                    allowed |-> r.allowed]]
            /\ UNCHANGED <<cooldowns, lastExecuted, replied>>
    /\ UNCHANGED <<guildVars, vars6, resolverVars, vars8, vars67, overlapVars, loggerVars>>

\* handle resumes after `await this.rateLimiter.canMakeRequest(...)`: the
\* rate-limit reply, or the permission check (the command requires no
\* permission) and the cooldown check.
HandleResumed(s) ==
    /\ handling[s].pc = "limited"
    /\ IF ~handling[s].allowed
       THEN /\ handling' = [handling EXCEPT ![s].pc = "replying"]
            /\ replied' = "rate limited"
            /\ UNCHANGED <<cooldowns, lastExecuted>>
       ELSE AfterCooldownCheck(s, handling[s].user,
                CooldownCheck(config.handler, cooldowns, handling[s].user,
                              config.cooldown, now))
    /\ UNCHANGED <<guildVars, vars6, resolverVars, vars8, vars67, overlapVars,
                   requests, accepted, messagesLeft, loggerVars>>

\* message.reply settled: handle returns.
ReplySent(s) ==
    /\ handling[s].pc = "replying"
    /\ handling' = [handling EXCEPT ![s] = HandleIdle]
    /\ UNCHANGED <<guildVars, vars6, resolverVars, vars8, vars67, overlapVars,
                   requests, cooldowns, lastExecuted, accepted, messagesLeft, replied,
                   loggerVars>>

\* command.execute settled (after its catch block, if it threw): handle
\* returns.
ExecuteReturned(s) ==
    /\ handling[s].pc = "executing"
    /\ handling' = [handling EXCEPT ![s] = HandleIdle]
    /\ UNCHANGED <<guildVars, vars6, resolverVars, vars8, vars67, overlapVars,
                   requests, cooldowns, lastExecuted, accepted, messagesLeft, replied,
                   loggerVars>>

\* index8.js: the hourly setInterval callback, commandHandler.cleanup().
HandlerCleanup ==
    /\ config.handler = "index8.js"
    /\ cooldowns' = CleanupCooldowns(cooldowns, now)
    /\ requests' = CleanupRequests(requests, now)
    /\ UNCHANGED <<guildVars, vars6, resolverVars, vars8, vars67, overlapVars,
                   handling, lastExecuted, accepted, messagesLeft, replied, loggerVars>>

NextCommands ==
    \/ Elapse
    \/ \E s \in DOMAIN handling, u \in config.authors : MessageReceived(s, u)
    \/ \E s \in DOMAIN handling : HandleResumed(s)
    \/ \E s \in DOMAIN handling : ReplySent(s)
    \/ \E s \in DOMAIN handling : ExecuteReturned(s)
    \/ HandlerCleanup

\* Two users, two messages in the handler at a time, each of the three
\* programs, the command registered with its cooldown or with none.
InitCooldown ==
    InitCommands({"index8.js", "part_002", "index9.js"}, {0, Cooldown}, {1, 2}, {1, 2},
                 MaxMessages)

SpecCooldown == InitCooldown /\ [][NextCommands]_vars

\* One user sending more than maxRequests messages, two in the handler at a
\* time, to a program that has the rate limiter.
InitLimiter ==
    InitCommands({"index8.js", "part_002"}, {Cooldown}, {1}, {1, 2},
                 MaxRequests + ExtraMessages)

SpecLimiter == InitLimiter /\ [][NextCommands]_vars

\* ------------------------------------------------ Logger: the write queue

\* The batch size of processWriteQueue: this.writeQueue.splice(0, 10).
BatchSize == 10

\* Number of writeToFile calls.
MaxLogMessages == 12

\* The first n elements of s (all of s when it is shorter).
Take(s, n) == SubSeq(s, 1, IF Len(s) < n THEN Len(s) ELSE n)

\* s without its first n elements.
Drop(s, n) == SubSeq(s, (IF Len(s) < n THEN Len(s) ELSE n) + 1, Len(s))

\* writeToFile finding the writer free whatever isWriting says.
WriterFreeAlways(flag) == TRUE

\* writeToFile: if (!this.isWriting)
WriterFree(flag) == ~flag

\* Nothing logged yet; every other component idle.
InitLogger ==
    /\ roles \in {cat \in Catalogues : ~cat.managed[3]}
    /\ members = [id \in 1..NumMembers |-> [bot |-> FALSE, roles |-> {Everyone}]]
    /\ channels = {}
    /\ config = [handler |-> "index8.js"]
    /\ cmd = CmdIdle
    /\ lastReply = [kind |-> "none"]
    /\ ResolverIdle
    /\ Idle8
    /\ Idle67
    /\ ComponentsIdle

\* writeToFile(message), the message being the next number: it is pushed,
\* and with the writer free isWriting is set and processWriteQueue runs up
\* to its first fs.appendFile, the first batch taken from the queue.
WriteToFile ==
    /\ enqueued < MaxLogMessages
    /\ enqueued' = enqueued + 1
    /\ LET queue == Append(writeQueue, enqueued + 1) IN
       IF WriterFree(isWriting)
       THEN /\ isWriting' = TRUE
            /\ appending' = Append(appending, Take(queue, BatchSize))
            /\ writeQueue' = Drop(queue, BatchSize)
       ELSE /\ writeQueue' = queue
            /\ UNCHANGED <<isWriting, appending>>
    /\ UNCHANGED <<guildVars, vars6, resolverVars, vars8, vars67, overlapVars, commandVars,
                   logFile, lost>>

\* processWriteQueue after the appendFile of loop i settled: the next batch
\* is taken and appended, or the loop ends and clears isWriting.
LoopContinues(i) ==
    IF Len(writeQueue) > 0
    THEN /\ appending' = [appending EXCEPT ![i] = Take(writeQueue, BatchSize)]
         /\ writeQueue' = Drop(writeQueue, BatchSize)
         /\ isWriting' = isWriting
    ELSE /\ appending' = [k \in 1..(Len(appending) - 1) |->
                             IF k < i THEN appending[k] ELSE appending[k + 1]]
         /\ writeQueue' = writeQueue
         /\ isWriting' = FALSE

\* fs.appendFile resolved: the batch is at the end of the file.
AppendResolved(i) ==
    /\ i \in DOMAIN appending
    /\ logFile' = logFile \o appending[i]
    /\ LoopContinues(i)
    /\ UNCHANGED <<guildVars, vars6, resolverVars, vars8, vars67, overlapVars, commandVars,
                   lost, enqueued>>

\* fs.appendFile rejected: the catch block reports it and the batch is
\* gone.
AppendRejected(i) ==
    /\ i \in DOMAIN appending
    /\ lost' = lost \cup Range(appending[i])
    /\ LoopContinues(i)
    /\ UNCHANGED <<guildVars, vars6, resolverVars, vars8, vars67, overlapVars, commandVars,
                   logFile, enqueued>>

\* An fs.appendFile call in flight settles.
AppendSettled == \E i \in DOMAIN appending : AppendResolved(i) \/ AppendRejected(i)

NextLogger ==
    \/ WriteToFile
    \/ \E i \in DOMAIN appending : AppendResolved(i)
    \/ \E i \in DOMAIN appending : AppendRejected(i)

\* Every fs.appendFile call settles in the end.
SpecLogger == InitLogger /\ [][NextLogger]_vars /\ WF_vars(AppendSettled)

\* ------------------------------------------------ effective-role resolution

\* member.roles.cache.filter(r => r.id !== ignoredRoleId)
\*     .sort((a, b) => b.position - a.position): the member's roles without
\* the ignored one, highest position first.
RolesBelowIgnored(cat, member, ignoredRoleId) ==
    SortByPositionDesc(cat.pos,
        Filter(MemberRolesCache(cat, member), GuildRoleIds(cat) \ {ignoredRoleId}))

\* getEffectiveRole returning the sorted roles' first without removing the
\* ignored role.
GetEffectiveRoleUnfiltered(cat, member, ignoredRoleId) ==
    LET highestRole == HighestRole(cat, member) IN
    IF highestRole = ignoredRoleId
    THEN First(SortByPositionDesc(cat.pos, MemberRolesCache(cat, member)))
    ELSE highestRole

\* getEffectiveRole sorting by ascending position.
GetEffectiveRoleAscending(cat, member, ignoredRoleId) ==
    LET highestRole == HighestRole(cat, member)
        sorted == RolesBelowIgnored(cat, member, ignoredRoleId)
    IN  IF highestRole = ignoredRoleId
        THEN (IF sorted = <<>> THEN None ELSE sorted[Len(sorted)])
        ELSE highestRole

\* utils.getEffectiveRole(member, ignoredRoleId)
GetEffectiveRole(cat, member, ignoredRoleId) ==
    LET highestRole == HighestRole(cat, member) IN
    IF highestRole = ignoredRoleId
    THEN First(RolesBelowIgnored(cat, member, ignoredRoleId))
    ELSE highestRole

\* index7.js: the filter callback of getRoleMemberCount(members, role).
RoleMemberCounted(cat, member, roleId, ignoredRoleId) ==
    IF member.bot THEN FALSE
    ELSE LET highestRole == HighestRole(cat, member) IN
         IF highestRole = roleId THEN TRUE
         ELSE IF highestRole = ignoredRoleId
         THEN LET nextHighestRole == First(RolesBelowIgnored(cat, member, ignoredRoleId))
              IN  nextHighestRole # None /\ nextHighestRole = roleId
         ELSE FALSE

\* index7.js: getRoleMemberCount(members, role)
GetRoleMemberCount(mem, cat, roleId, ignoredRoleId) ==
    Cardinality({id \in DOMAIN mem : RoleMemberCounted(cat, mem[id], roleId, ignoredRoleId)})

\* Catalogues for the resolution: roles 2, 3 and 4 at positions 3, 5 or 10
\* in every combination (equal positions too), guild.roles.cache in either
\* order.
ResolverCatalogues ==
    { [pos |-> (1 :> 0 @@ 2 :> p2 @@ 3 :> p3 @@ 4 :> p4),
       managed |-> [r \in 1..4 |-> FALSE],
       order |-> o] :
      p2 \in {3, 5, 10}, p3 \in {3, 5, 10}, p4 \in {3, 5, 10},
      o \in { <<1, 2, 3, 4>>, <<1, 4, 3, 2>> } }

InitResolver ==
    /\ roles \in ResolverCatalogues
    /\ members \in [1..1 -> MemberShapes(roles)]
    /\ channels = {}
    /\ config \in [ignoredRoleId : {None, 1, 2, 3, 4}]
    /\ cmd = CmdIdle
    /\ lastReply = [kind |-> "none"]
    /\ ResolverIdle
    /\ Idle8
    /\ Idle67
    /\ ComponentsIdle

\* utils.getEffectiveRole is applied to a member of the guild.
ResolveEffectiveRole ==
    /\ \E id \in DOMAIN members :
          resolved' = [id |-> id,
                       role |-> GetEffectiveRole(roles, members[id], config.ignoredRoleId)]
    /\ UNCHANGED <<componentVars, guildVars, vars6, counted7, vars8, vars67>>

\* index7.js: getRoleMemberCount is applied to a role of the guild.
CountRoleMembers ==
    /\ \E roleId \in GuildRoleIds(roles) :
          counted7' = [roleId |-> roleId,
                       count |-> GetRoleMemberCount(members, roles, roleId, config.ignoredRoleId)]
    /\ UNCHANGED <<componentVars, guildVars, vars6, resolved, vars8, vars67>>

NextResolver ==
    \/ ResolveEffectiveRole
    \/ CountRoleMembers

SpecResolver == InitResolver /\ [][NextResolver]_vars

\* ------------------- part_002: the getEffectiveRole-based cached variant

\* `effectiveRole.id` in a members.filter callback: reading .id of undefined
\* throws a TypeError, which leaves the filter and the handler's try block.
EffectiveRoleIdThrows(mem, cat, ignoredRoleId) ==
    \E id \in DOMAIN mem : GetEffectiveRole(cat, mem[id], ignoredRoleId) = None

\* members.filter(member => utils.getEffectiveRole(member, ...).id === roleId)
\* when no callback throws: the ids kept.
MembersWithEffectiveRole(mem, cat, roleId, ignoredRoleId) ==
    {id \in DOMAIN mem : GetEffectiveRole(cat, mem[id], ignoredRoleId) = roleId}

RECURSIVE RoleChannelUpdates2(_, _, _, _, _)
\* updateChannelNames of part_002: the role loop from index i on, giving the
\* updates pushed or the TypeError thrown.
RoleChannelUpdates2(mem, cat, cfg, chans, i) ==
    IF i > Len(cfg.roles) THEN [kind |-> "ok", updates |-> <<>>]
    ELSE IF cfg.roles[i] \notin GuildRoleIds(cat) \/ i \notin chans
    THEN RoleChannelUpdates2(mem, cat, cfg, chans, i + 1)
    ELSE IF EffectiveRoleIdThrows(mem, cat, cfg.ignoredRoleId)
    THEN [kind |-> "TypeError", updates |-> <<>>]
    ELSE LET membersWithRole ==
                 MembersWithEffectiveRole(mem, cat, cfg.roles[i], cfg.ignoredRoleId)
             rest == RoleChannelUpdates2(mem, cat, cfg, chans, i + 1)
         IN  IF rest.kind = "TypeError" THEN rest
             ELSE [kind |-> "ok",
                   updates |-> << [channel |-> i, roleId |-> cfg.roles[i],
                                   membersWithRole |-> membersWithRole,
                                   count |-> Cardinality(membersWithRole)] >>
                               \o rest.updates]

\* updateChannelNames of part_002 from the members to its state after the
\* queue is filled: the first rename, or the end of the pass when nothing was
\* queued or when the catch block took the TypeError.
JobFromMembers2(mem, cat, cfg, chans) ==
    LET humanMembers == {id \in DOMAIN mem : ~mem[id].bot}
        loop == RoleChannelUpdates2(mem, cat, cfg, chans, 1)
    IN  IF loop.kind = "TypeError" THEN JobIdle
        ELSE JobWithUpdates(
                 (IF 0 \in chans
                  THEN << [channel |-> 0, roleId |-> None, membersWithRole |-> humanMembers,
                           count |-> Cardinality(humanMembers)] >>
                  ELSE <<>>)
                 \o loop.updates)

RECURSIVE CountLines2(_, _, _, _, _, _)
\* The count command of part_002: the role loop from index i on, giving the
\* lines of the response or the TypeError thrown.
CountLines2(mem, cat, cfg, totalMembersCount, rolesToProcess, i) ==
    IF i > rolesToProcess THEN [kind |-> "ok", lines |-> <<>>]
    ELSE IF cfg.roles[i] \notin GuildRoleIds(cat)
    THEN CountLines2(mem, cat, cfg, totalMembersCount, rolesToProcess, i + 1)
    ELSE IF EffectiveRoleIdThrows(mem, cat, cfg.ignoredRoleId)
    THEN [kind |-> "TypeError", lines |-> <<>>]
    ELSE LET membersWithRole ==
                 MembersWithEffectiveRole(mem, cat, cfg.roles[i], cfg.ignoredRoleId)
             count == Cardinality(membersWithRole)
             rest == CountLines2(mem, cat, cfg, totalMembersCount, rolesToProcess, i + 1)
         IN  IF rest.kind = "TypeError" THEN rest
             ELSE [kind |-> "ok",
                   lines |-> << [roleId |-> cfg.roles[i], membersWithRole |-> membersWithRole,
                                 count |-> count,
                                 percentage |-> CalculatePercentage(count, totalMembersCount)] >>
                             \o rest.lines]

\* The count command of part_002 from the members to the message it sends:
\* the counts, or the error text of the catch block.
CountResponse2(mem, cat, cfg, n) ==
    LET totalMembersCount == TotalMembers(mem)
        unverifiedMembers ==
            {id \in DOMAIN mem : cfg.verifiedRoleId \notin mem[id].roles /\ ~mem[id].bot}
        loop == CountLines2(mem, cat, cfg, totalMembersCount, RolesToProcess(n, cfg), 1)
    IN  IF loop.kind = "TypeError" THEN [kind |-> "error"]
        ELSE [kind |-> "counts",
              totalMembers |-> totalMembersCount,
              unverifiedMembers |-> unverifiedMembers,
              unverified |-> Cardinality(unverifiedMembers),
              unverifiedPercentage |->
                  CalculatePercentage(Cardinality(unverifiedMembers), totalMembersCount),
              lines |-> loop.lines]

\* The configurations of the part_002 runs: the ignored role is @everyone
\* itself or role 3.
Configs2 ==
    [roles : { <<3>>, <<9, 3>> },
     ignoredRoleId : {Everyone, 3},
     verifiedRoleId : {2}]

Init2 ==
    /\ roles \in {cat \in Catalogues : ~cat.managed[3]}
    /\ members \in Snapshots8(roles)
    /\ channels \in ChannelSets
    /\ config \in Configs2
    /\ cmd = CmdIdle
    /\ lastReply = [kind |-> "none"]
    /\ ResolverIdle
    /\ now = TickMs
    /\ cache = [members |-> {}, lastUpdate |-> None]
    /\ job = JobIdle
    /\ channelName = [c \in channels |-> [count |-> None]]
    /\ cmd8 = Cmd8Idle
    /\ Idle67
    /\ ComponentsIdle

\* A cron tick (or start-up) calls updateChannelNames of part_002.
Scheduled2Start ==
    /\ job.pc = "idle"
    /\ job' = IF CacheHit(cache, now)
              THEN JobFromMembers2(Cached(cache), roles, config, channels)
              ELSE [JobIdle EXCEPT !.pc = "fetching"]
    /\ UNCHANGED <<componentVars, guildVars, vars6, resolverVars, now, cache, channelName, cmd8, vars67>>

\* guild.members.fetch resolved inside cache.refresh: the collection is
\* stored and the pass goes on with it.
Scheduled2Fetched ==
    /\ job.pc = "fetching"
    /\ cache' = [members |-> {members}, lastUpdate |-> now]
    /\ job' = JobFromMembers2(members, roles, config, channels)
    /\ UNCHANGED <<componentVars, guildVars, vars6, resolverVars, now, channelName, cmd8, vars67>>

\* The count command of part_002 is called for `!count` or `!count 1`.
Count2Start ==
    /\ cmd8.pc = "idle"
    /\ \E n \in {None, 1} :
          cmd8' = IF CacheHit(cache, now)
                  THEN [pc |-> "sending", n |-> n,
                        response |-> CountResponse2(Cached(cache), roles, config, n)]
                  ELSE [pc |-> "fetching", n |-> n, response |-> [kind |-> "none"]]
    /\ UNCHANGED <<componentVars, guildVars, vars6, resolverVars, now, cache, job, channelName, vars67>>

\* The command's fetch resolved: the collection is stored and the message
\* to send built.
Count2Fetched ==
    /\ cmd8.pc = "fetching"
    /\ cache' = [members |-> {members}, lastUpdate |-> now]
    /\ cmd8' = [cmd8 EXCEPT !.pc = "sending",
                    !.response = CountResponse2(members, roles, config, cmd8.n)]
    /\ UNCHANGED <<componentVars, guildVars, vars6, resolverVars, now, job, channelName, vars67>>

Next2 ==
    \/ Tick
    \/ Scheduled2Start
    \/ Scheduled2Fetched
    \/ ScheduledFetchFailed
    \/ ScheduledRenamed
    \/ ScheduledPaused
    \/ ScheduledRenameFailed
    \/ Count2Start
    \/ Count2Fetched
    \/ Count8FetchFailed
    \/ Count8Sent

Spec2 == Init2 /\ [][Next2]_vars

\* ------------------------------------------------------- member events

\* Number of member events (join, leave, role update) the gateway delivers
\* in a run.
MaxEvents == 1

\* The members a GUILD_MEMBER_ADD event brings: a bot with no role but
\* @everyone, or a user already holding roles 2 and 3.
JoinShapes ==
    { [bot |-> TRUE, roles |-> {Everyone}], [bot |-> FALSE, roles |-> {Everyone, 2, 3}] }

\* The id of the next member to join: never one the guild has had.
NewMemberId == NumMembers + events + 1

\* The GuildMember objects of a fetched collection are the ones of
\* guild.members.cache: a role update patches them in place, a member who
\* left stays in the collection as it was.
PatchedSnapshot(snapshot, id, member) ==
    [j \in DOMAIN snapshot |-> IF j = id THEN member ELSE snapshot[j]]

\* guildMemberAdd: the member is added to guild.members.cache.
MemberJoined ==
    /\ events < MaxEvents
    /\ \E member \in JoinShapes :
          members' = [j \in DOMAIN members \cup {NewMemberId} |->
                          IF j = NewMemberId THEN member ELSE members[j]]
    /\ events' = events + 1
    /\ UNCHANGED <<componentVars, roles, channels, config, vars6, resolverVars, vars8, job6, stats, job7, cmd7>>

\* guildMemberRemove: the member is removed from guild.members.cache.
MemberLeft ==
    /\ events < MaxEvents
    /\ \E id \in DOMAIN members :
          members' = [j \in DOMAIN members \ {id} |-> members[j]]
    /\ events' = events + 1
    /\ UNCHANGED <<componentVars, roles, channels, config, vars6, resolverVars, vars8, job6, stats, job7, cmd7>>

\* guildMemberUpdate: one role is added to or removed from a member; the
\* cached GuildMember is patched, and with it the collections holding it.
MemberUpdated ==
    /\ events < MaxEvents
    /\ \E id \in DOMAIN members, r \in GuildRoleIds(roles) \ {Everyone} :
          LET member == [members[id] EXCEPT !.roles =
                            IF r \in @ THEN @ \ {r} ELSE @ \cup {r}]
          IN  /\ members' = [members EXCEPT ![id] = member]
              /\ job7' = [job7 EXCEPT !.snapshot = PatchedSnapshot(@, id, member)]
    /\ events' = events + 1
    /\ UNCHANGED <<componentVars, roles, channels, config, vars6, resolverVars, vars8, job6, stats, cmd7>>

\* ------------------------- index6.js: the scheduled updateChannelNames pass

\* The index of the next scheduled role from i on whose role and channel
\* both exist (the others are skipped), or None.
NextScheduled6(cat, cfg, chans, i) ==
    LET found == {j \in i..Len(cfg.scheduledRoles) :
                     cfg.scheduledRoles[j] \in GuildRoleIds(cat) /\ j \in chans}
    IN  IF found = {} THEN None ELSE CHOOSE j \in found : \A o \in found : j <= o

\* updateChannelNames going on with the role loop from index i: the next
\* role is counted over guild.members.cache as it is now and its rename
\* started, or the pass is over. published is the pass so far.
Job6Continue(published, mem, cat, cfg, chans, i) ==
    LET j == NextScheduled6(cat, cfg, chans, i) IN
    IF j = None
    THEN [published EXCEPT !.pc = "idle", !.i = 0, !.countedMembers = {}, !.pending = None]
    ELSE LET r == CountMembersWithHighestRole(mem, cat, cfg.scheduledRoles[j],
                      cfg.verifiedRoleId, cfg.ignoredRoleId, published.countedMembers)
         IN  [published EXCEPT !.pc = "renaming", !.i = j,
                               !.countedMembers = r.countedMembers,
                               !.pending = r.count]

\* The guilds and configurations of the scheduled runs of index6.js.
Configs6 ==
    [scheduledRoles : { <<3>>, <<3, 4>> },
     ignoredRoleId : {None, 4},
     verifiedRoleId : {2}]

Init6Scheduled ==
    /\ roles \in {cat \in Catalogues : ~cat.managed[3]}
    /\ members \in Snapshots8(roles)
    /\ channels \in ChannelSets
    /\ config \in Configs6
    /\ cmd = CmdIdle
    /\ lastReply = [kind |-> "none"]
    /\ ResolverIdle
    /\ Idle8
    /\ Idle67
    /\ ComponentsIdle

\* The interval timer (or start-up) calls updateChannelNames, up to
\* `await guild.members.fetch()`.
Scheduled6Start ==
    /\ job6.pc = "idle"
    /\ job6' = [Job6Idle EXCEPT !.pc = "fetching"]
    /\ UNCHANGED <<componentVars, guildVars, vars6, resolverVars, vars8, events, stats, job7, cmd7>>

\* The fetch resolved: the total is taken from guild.members.cache and the
\* total channel's rename started, or the role loop entered.
Scheduled6Fetched ==
    /\ job6.pc = "fetching"
    /\ job6' = IF 0 \in channels
               THEN [job6 EXCEPT !.pc = "renamingTotal", !.pending = TotalMembers(members)]
               ELSE Job6Continue(job6, members, roles, config, channels, 1)
    /\ UNCHANGED <<componentVars, guildVars, vars6, resolverVars, vars8, events, stats, job7, cmd7>>

\* The fetch rejected: the catch block logs and the pass ends.
Scheduled6FetchFailed ==
    /\ job6.pc = "fetching"
    /\ job6' = Job6Idle
    /\ UNCHANGED <<componentVars, guildVars, vars6, resolverVars, vars8, events, stats, job7, cmd7>>

\* setName resolved: the channel shows the count, and the loop goes on with
\* the next scheduled role.
Scheduled6Renamed ==
    /\ job6.pc \in {"renamingTotal", "renaming"}
    /\ LET published == IF job6.pc = "renamingTotal"
                        THEN [job6 EXCEPT !.total = job6.pending]
                        ELSE [job6 EXCEPT !.counts = Append(@, job6.pending)]
       IN  job6' = Job6Continue(published, members, roles, config, channels, job6.i + 1)
    /\ UNCHANGED <<componentVars, guildVars, vars6, resolverVars, vars8, events, stats, job7, cmd7>>

\* setName rejected: nothing inside the loop catches, the pass ends.
Scheduled6RenameFailed ==
    /\ job6.pc \in {"renamingTotal", "renaming"}
    /\ job6' = [job6 EXCEPT !.pc = "idle", !.i = 0, !.countedMembers = {}, !.pending = None]
    /\ UNCHANGED <<componentVars, guildVars, vars6, resolverVars, vars8, events, stats, job7, cmd7>>

Next6Scheduled ==
    \/ MemberJoined
    \/ MemberLeft
    \/ MemberUpdated
    \/ Scheduled6Start
    \/ Scheduled6Fetched
    \/ Scheduled6FetchFailed
    \/ Scheduled6Renamed
    \/ Scheduled6RenameFailed

Spec6Scheduled == Init6Scheduled /\ [][Next6Scheduled]_vars

\* ------------------------------------- index7.js: the shared MemberStats

\* stats.clear() left out.
ClearStatsKept(st) == st

\* stats.clear()
ClearStats(st) == [st EXCEPT !.countedMembers = {}, !.roleStats = {}]

\* members.filter(...) of the !count role loop for roleId: the ids kept.
MembersWithRole7(mem, cat, roleId, ignoredRoleId, st) ==
    {id \in DOMAIN mem :
        id \notin st.countedMembers /\ RoleMemberCounted(cat, mem[id], roleId, ignoredRoleId)}

RECURSIVE CountRolesLoop7(_, _, _, _, _, _)
\* for (const roleId of countRoles) of the !count handler from index i on;
\* acc is [stats, lines].
CountRolesLoop7(mem, cat, cfg, totalMembers, i, acc) ==
    IF i > Len(cfg.countRoles) THEN acc
    ELSE LET roleId == cfg.countRoles[i] IN
         IF roleId \notin GuildRoleIds(cat)
         THEN CountRolesLoop7(mem, cat, cfg, totalMembers, i + 1, acc)
         ELSE LET membersWithRole ==
                      MembersWithRole7(mem, cat, roleId, cfg.ignoredRoleId, acc.stats)
                  count == Cardinality(membersWithRole)
              IN  CountRolesLoop7(mem, cat, cfg, totalMembers, i + 1,
                      [stats |-> [acc.stats EXCEPT
                                     !.countedMembers = @ \cup membersWithRole,
                                     !.roleStats = {p \in @ : p[1] \notin membersWithRole}
                                                   \cup {<<id, roleId>> : id \in membersWithRole}],
                       lines |-> Append(acc.lines,
                                    [roleId |-> roleId, count |-> count,
                                     percentage |-> ToFixedPercent(count, totalMembers, 3)])])

\* The !count handler from the resolved fetch to the response, on the
\* shared stats st: [stats, response].
CountResponse7(mem, cat, cfg, st) ==
    LET cleared == [ClearStats(st) EXCEPT !.totalMembers = TotalMembers(mem)]
        unverifiedMembers == UnverifiedMembers(mem, cfg.verifiedRoleId)
        loop == CountRolesLoop7(mem, cat, cfg, cleared.totalMembers, 1,
                    [stats |-> cleared, lines |-> <<>>])
    IN  [stats |-> loop.stats,
         response |-> [kind |-> "counts",
                       totalMembers |-> cleared.totalMembers,
                       unverified |-> unverifiedMembers,
                       unverifiedPercentage |->
                           ToFixedPercent(unverifiedMembers, cleared.totalMembers, 2),
                       lines |-> loop.lines]]

\* The index of the next scheduled role from i on whose role and channel
\* both exist (the others are skipped), or None.
NextScheduled7(cat, cfg, chans, i) ==
    LET found == {j \in i..Len(cfg.scheduledRoles) :
                     cfg.scheduledRoles[j] \in GuildRoleIds(cat) /\ j \in chans}
    IN  IF found = {} THEN None ELSE CHOOSE j \in found : \A o \in found : j <= o

\* updateChannels going on with the role loop from index i: the count of the
\* next role is taken from the fetched collection and its rename started, or
\* the pass is over.
Job7Continue(snapshot, cat, cfg, chans, i) ==
    LET j == NextScheduled7(cat, cfg, chans, i) IN
    IF j = None THEN Job7Idle
    ELSE [pc |-> "renaming", i |-> j, snapshot |-> snapshot,
          pending |-> GetRoleMemberCount(snapshot, cat, cfg.scheduledRoles[j],
                                         cfg.ignoredRoleId)]

\* The guilds and configurations of the index7.js runs: two members, among
\* them a user whose two roles include the higher one, users with one role
\* or none and a bot; two scheduled and two counted roles, every channel
\* there.
Snapshots7 ==
    { << [bot |-> FALSE, roles |-> {Everyone, 3}], [bot |-> FALSE, roles |-> {Everyone, 3, 4}] >>,
      << [bot |-> FALSE, roles |-> {Everyone, 4}], [bot |-> TRUE, roles |-> {Everyone}] >>,
      << [bot |-> FALSE, roles |-> {Everyone}], [bot |-> FALSE, roles |-> {Everyone, 3, 4}] >> }

Configs7 ==
    [scheduledRoles : { <<3, 4>> },
     countRoles : { <<3, 4>> },
     ignoredRoleId : {None, 4},
     verifiedRoleId : {2}]

Init7 ==
    /\ roles \in {cat \in Catalogues : ~cat.managed[3]}
    /\ members \in Snapshots7
    /\ channels = {0, 1, 2}
    /\ config \in Configs7
    /\ cmd = CmdIdle
    /\ lastReply = [kind |-> "none"]
    /\ ResolverIdle
    /\ Idle8
    /\ Idle67
    /\ ComponentsIdle

\* The interval timer (or start-up) calls updateChannels, up to
\* `await guild.members.fetch()`.
Scheduled7Start ==
    /\ job7.pc = "idle"
    /\ job7' = [Job7Idle EXCEPT !.pc = "fetching"]
    /\ UNCHANGED <<componentVars, guildVars, vars6, resolverVars, vars8, events, job6, stats, cmd7>>

\* The pass's fetch resolved: stats.totalMembers is set and the total
\* channel's rename started with it, or the role loop entered.
Scheduled7Fetched ==
    /\ job7.pc = "fetching"
    /\ stats' = [stats EXCEPT !.totalMembers = TotalMembers(members)]
    /\ job7' = IF 0 \in channels
               THEN [pc |-> "renamingTotal", i |-> 0, snapshot |-> members,
                     pending |-> stats'.totalMembers]
               ELSE Job7Continue(members, roles, config, channels, 1)
    /\ UNCHANGED <<componentVars, guildVars, vars6, resolverVars, vars8, events, job6, cmd7>>

\* The pass's fetch rejected: the catch block logs and the pass ends.
Scheduled7FetchFailed ==
    /\ job7.pc = "fetching"
    /\ job7' = Job7Idle
    /\ UNCHANGED <<componentVars, guildVars, vars6, resolverVars, vars8, events, job6, stats, cmd7>>

\* setName resolved: the loop goes on with the next scheduled role.
Scheduled7Renamed ==
    /\ job7.pc \in {"renamingTotal", "renaming"}
    /\ job7' = Job7Continue(job7.snapshot, roles, config, channels, job7.i + 1)
    /\ UNCHANGED <<componentVars, guildVars, vars6, resolverVars, vars8, events, job6, stats, cmd7>>

\* setName rejected: nothing inside the loop catches, the pass ends.
Scheduled7RenameFailed ==
    /\ job7.pc \in {"renamingTotal", "renaming"}
    /\ job7' = Job7Idle
    /\ UNCHANGED <<componentVars, guildVars, vars6, resolverVars, vars8, events, job6, stats, cmd7>>

\* messageCreate with `!count` from an allowed channel and role, up to
\* `await guild.members.fetch()`.
Count7Received(k) ==
    /\ cmd7[k].pc = "idle"
    /\ cmd7' = [cmd7 EXCEPT ![k] = [Cmd7Idle EXCEPT !.pc = "fetching"]]
    /\ UNCHANGED <<componentVars, guildVars, vars6, resolverVars, vars8, events, job6, stats, job7>>

\* The handler's fetch resolved: from stats.clear() to
\* `await message.channel.send(response)` without a pause.
Count7Fetched(k) ==
    /\ cmd7[k].pc = "fetching"
    /\ LET r == CountResponse7(members, roles, config, stats) IN
        /\ stats' = r.stats
        /\ cmd7' = [cmd7 EXCEPT ![k] = [pc |-> "sending", response |-> r.response]]
    /\ UNCHANGED <<componentVars, guildVars, vars6, resolverVars, vars8, events, job6, job7>>

\* The handler's fetch rejected: the catch block sends the error text.
Count7FetchFailed(k) ==
    /\ cmd7[k].pc = "fetching"
    /\ cmd7' = [cmd7 EXCEPT ![k] = [pc |-> "sending", response |-> [kind |-> "error"]]]
    /\ UNCHANGED <<componentVars, guildVars, vars6, resolverVars, vars8, events, job6, stats, job7>>

\* The message was delivered; the handler returns.
Count7Sent(k) ==
    /\ cmd7[k].pc = "sending"
    /\ cmd7' = [cmd7 EXCEPT ![k] = Cmd7Idle]
    /\ UNCHANGED <<componentVars, guildVars, vars6, resolverVars, vars8, events, job6, stats, job7>>

Next7 ==
    \/ MemberJoined
    \/ MemberLeft
    \/ MemberUpdated
    \/ Scheduled7Start
    \/ Scheduled7Fetched
    \/ Scheduled7FetchFailed
    \/ Scheduled7Renamed
    \/ Scheduled7RenameFailed
    \/ \E k \in CommandSlots : Count7Received(k)
    \/ \E k \in CommandSlots : Count7Fetched(k)
    \/ \E k \in CommandSlots : Count7FetchFailed(k)
    \/ \E k \in CommandSlots : Count7Sent(k)

Spec7 == Init7 /\ [][Next7]_vars

\* ------------------------------------------------- the example scenario

\* The guild of the example: roles verified (2), roleX (3), roleY (4) and
\* ignored (5), none managed, the ignored role above roleX and roleY and
\* these above the verified role, in every such choice of positions 1..4.
ScenarioCatalogues ==
    { [pos |-> (1 :> 0 @@ 2 :> pv @@ 3 :> px @@ 4 :> py @@ 5 :> pi),
       managed |-> [r \in 1..5 |-> FALSE],
       order |-> <<1, 2, 3, 4, 5>>] :
      <<pv, px, py, pi>> \in
          {p \in (1..4) \X (1..4) \X (1..4) \X (1..4) :
              p[4] > p[2] /\ p[4] > p[3] /\ p[2] > p[1] /\ p[3] > p[1]} }

\* The three members of the example, under every assignment of member ids.
ScenarioSnapshots ==
    LET shapes == << [bot |-> FALSE, roles |-> {Everyone, 2, 3}],
                     [bot |-> FALSE, roles |-> {Everyone, 2, 5, 4}],
                     [bot |-> TRUE,  roles |-> {Everyone, 3}] >>
    IN  { [id \in 1..3 |-> shapes[perm[id]]] :
            perm \in {f \in [1..3 -> 1..3] : \A a, b \in 1..3 : a # b => f[a] # f[b]} }

InitScenario ==
    /\ roles \in ScenarioCatalogues
    /\ members \in ScenarioSnapshots
    /\ channels = {}
    /\ config = [countRoles |-> <<3, 4>>, ignoredRoleId |-> 5, verifiedRoleId |-> 2]
    /\ cmd = CmdIdle
    /\ lastReply = [kind |-> "none"]
    /\ ResolverIdle
    /\ Idle8
    /\ Idle67
    /\ ComponentsIdle

SpecScenario == InitScenario /\ [][Next]_vars

\* ------------------------------------------------------------- the claims

\* The !count handler has computed a count response and is about to send it.
CountsReady == cmd.pc = "sending" /\ cmd.response.kind = "counts"

\* The sum of the per-role counts of the response.
PerRoleSum == SumSeq([i \in DOMAIN cmd.response.lines |-> cmd.response.lines[i].count])

\* The role a member is counted for by countMembersWithHighestRole: the
\* highest role, or behind the ignored role the next-highest role that is
\* neither ignored nor managed.
EffectiveRole(cat, member, ignoredRoleId) ==
    IF HighestRole(cat, member) = ignoredRoleId
    THEN NextHighestRole(cat, member, ignoredRoleId)
    ELSE HighestRole(cat, member)

\* The non-bot members holding the verified role.
VerifiedMembers == {id \in DOMAIN members : ~members[id].bot /\ config.verifiedRoleId \in members[id].roles}

\* C1: in one !count pass of the claimed-set variant no member id is in more
\* than one per-role bucket, also when the role list repeats an id, and every
\* bucket's count is the number of ids in it.
C1_NoMemberInTwoBuckets ==
    CountsReady =>
        /\ \A i, j \in DOMAIN cmd.perRole :
               i # j => cmd.perRole[i].memberIds \cap cmd.perRole[j].memberIds = {}
        /\ \A i \in DOMAIN cmd.perRole :
               cmd.response.lines[i].count = Cardinality(cmd.perRole[i].memberIds)

\* C1 witness: a pass over a list that names role 3 twice, the first bucket
\* holding a member.
C1_Witness ==
    /\ CountsReady
    /\ config.countRoles = <<3, 3>>
    /\ cmd.perRole[1].count > 0
    /\ cmd.perRole[2].count = 0

\* C2: the per-role counts and the unverified count of a !count response sum
\* to at most totalMembers, and to exactly totalMembers when every verified
\* non-bot member's effective role is a tracked role id.
C2_CountsReconcile ==
    CountsReady =>
        /\ PerRoleSum + cmd.response.unverified <= cmd.response.totalMembers
        /\ (\A id \in VerifiedMembers :
                EffectiveRole(roles, members[id], config.ignoredRoleId) \in Range(config.countRoles))
           => PerRoleSum + cmd.response.unverified = cmd.response.totalMembers

\* C2 witness: every verified member's effective role is tracked, one member
\* is counted for a role and one is unverified.
C2_Witness ==
    /\ CountsReady
    /\ \A id \in VerifiedMembers :
           EffectiveRole(roles, members[id], config.ignoredRoleId) \in Range(config.countRoles)
    /\ PerRoleSum > 0
    /\ cmd.response.unverified > 0

\* C4: when the ignored role is itself in the tracked list, its count is 0
\* and no member id is claimed for it.
C4_IgnoredRoleNeverCredited ==
    CountsReady =>
        \A i \in DOMAIN cmd.perRole :
            cmd.perRole[i].roleId = config.ignoredRoleId
                => cmd.perRole[i].count = 0 /\ cmd.perRole[i].memberIds = {}

\* C4 witness: the ignored role is tracked and is the highest role of a
\* verified non-bot member.
C4_Witness ==
    /\ CountsReady
    /\ \E i \in DOMAIN cmd.perRole : cmd.perRole[i].roleId = config.ignoredRoleId
    /\ \E id \in VerifiedMembers : HighestRole(roles, members[id]) = config.ignoredRoleId

\* C6: a tracked role id the guild does not have yields no line and no
\* error; the lines of the response are, in order, the tracked ids the guild
\* has, each with the members counted for it.
C6_MissingRoleSkipped ==
    CountsReady =>
        /\ [i \in DOMAIN cmd.response.lines |-> cmd.response.lines[i].roleId]
              = Filter(config.countRoles, GuildRoleIds(roles))
        /\ \A id \in VerifiedMembers :
              LET e == EffectiveRole(roles, members[id], config.ignoredRoleId) IN
              e \in Range(config.countRoles)
                  => \E i \in DOMAIN cmd.perRole :
                        cmd.perRole[i].roleId = e /\ id \in cmd.perRole[i].memberIds

\* C6 witness: the list names a missing role before role 3, and role 3 is
\* reported with a member.
C6_Witness ==
    /\ CountsReady
    /\ config.countRoles = <<9, 3>>
    /\ Len(cmd.response.lines) = 1
    /\ cmd.response.lines[1].roleId = 3
    /\ cmd.response.lines[1].count > 0

\* The members the per-role buckets of the pass hold.
BucketMembers == UNION {cmd.perRole[i].memberIds : i \in DOMAIN cmd.perRole}

\* C10: a second !count pass over the same snapshot, catalogue and
\* configuration sends the response the first one sent, and its claimed set
\* holds the members of its own buckets only.
C10_SecondPassSameCounts ==
    (CountsReady /\ lastReply.kind = "counts") =>
        /\ cmd.response = lastReply
        /\ cmd.globalCountedMembers = BucketMembers

\* C10 witness: a second pass is ready after a first one that counted a
\* member.
C10_Witness ==
    /\ CountsReady
    /\ lastReply.kind = "counts"
    /\ PerRoleSum > 0

\* C9: in the example scenario the !count pass reports 2 members in total,
\* none unverified, one for roleX and one for roleY, each 50.000 %.
C9_ExampleScenarioCounts ==
    CountsReady =>
        /\ cmd.response.totalMembers = 2
        /\ cmd.response.unverified = 0
        /\ cmd.response.lines =
              << [roleId |-> 3, count |-> 1, percentage |-> [kind |-> "number", scaled |-> 50000]],
                 [roleId |-> 4, count |-> 1, percentage |-> [kind |-> "number", scaled |-> 50000]] >>

\* C9 witness: the pass over the example is ready, the member whose highest
\* role is the ignored one counted for roleY.
C9_Witness ==
    /\ CountsReady
    /\ config = [countRoles |-> <<3, 4>>, ignoredRoleId |-> 5, verifiedRoleId |-> 2]
    /\ \E id \in DOMAIN members :
          /\ members[id] = [bot |-> FALSE, roles |-> {Everyone, 2, 5, 4}]
          /\ HighestRole(roles, members[id]) = 5
          /\ id \in cmd.perRole[2].memberIds
    /\ \E id \in DOMAIN members : members[id] = [bot |-> TRUE, roles |-> {Everyone, 3}]

\* C3 (as claimed): no count index8.js reports includes a bot: not the
\* total, not the unverified count, not a per-role count of the scheduled
\* pass or of the count command.
C3_EveryCountExcludesBots ==
    /\ \A i \in DOMAIN job.channelUpdates :
          \A id \in job.channelUpdates[i].membersWithRole : ~members[id].bot
    /\ cmd8.response.kind = "counts" =>
          /\ \A id \in cmd8.response.unverifiedMembers : ~members[id].bot
          /\ \A i \in DOMAIN cmd8.response.lines :
                \A id \in cmd8.response.lines[i].membersWithRole : ~members[id].bot

\* C5 (as claimed): with no non-bot member, every percentage of the count
\* response is the number 0.
C5_ZeroTotalGivesZeroPercentages ==
    (cmd8.response.kind = "counts" /\ cmd8.response.totalMembers = 0) =>
        /\ cmd8.response.unverifiedPercentage = [kind |-> "number", scaled |-> 0]
        /\ \A i \in DOMAIN cmd8.response.lines :
              cmd8.response.lines[i].percentage = [kind |-> "number", scaled |-> 0]

\* The roles of greatest position among rs.
MaxPositionRoles(rs) == {r \in rs : \A o \in rs : roles.pos[r] >= roles.pos[o]}

\* C7: getEffectiveRole returns no role when the ignored role is the
\* member's only role.
C7_OnlyIgnoredRoleGivesNone ==
    (resolved.id # None /\ members[resolved.id].roles = {config.ignoredRoleId})
        => resolved.role = None

\* C7 witness: the member holds @everyone alone, which is the ignored role,
\* and was resolved to no role.
C7_Witness ==
    /\ resolved.id # None
    /\ members[resolved.id].roles = {Everyone}
    /\ config.ignoredRoleId = Everyone
    /\ resolved.role = None

\* C8: when the ignored role alone has the member's greatest position, the
\* effective role is a role of greatest position among the remaining ones
\* (A(5), ignored(10), B(3) give A); when the ignored role is not of greatest
\* position, the effective role is the member's highest role, also when the
\* member holds the ignored role. index7.js counts a non-bot member for a
\* role other than the ignored one exactly when it is that effective role.
C8_EffectiveRoleIsHighestRemaining ==
    /\ resolved.id # None =>
          LET held == members[resolved.id].roles
              ig == config.ignoredRoleId
          IN  /\ (MaxPositionRoles(held) = {ig} /\ held # {ig})
                    => resolved.role \in MaxPositionRoles(held \ {ig})
              /\ ig \notin MaxPositionRoles(held)
                    => resolved.role \in MaxPositionRoles(held)
              /\ (/\ held = {Everyone, 2, 3, 4} /\ ig = 3
                  /\ roles.pos[2] = 5 /\ roles.pos[3] = 10 /\ roles.pos[4] = 3)
                    => resolved.role = 2
    /\ (resolved.id # None /\ counted7.roleId # None /\ counted7.roleId # config.ignoredRoleId)
          => counted7.count =
                IF ~members[resolved.id].bot /\ resolved.role = counted7.roleId THEN 1 ELSE 0

\* C8 witness: the member holds A (role 2, position 5), the ignored role
\* (role 3, position 10) and B (role 4, position 3) and was resolved to A,
\* and index7.js counted the member for A.
C8_Witness ==
    /\ resolved.id # None
    /\ members[resolved.id] = [bot |-> FALSE, roles |-> {Everyone, 2, 3, 4}]
    /\ config.ignoredRoleId = 3
    /\ roles.pos[2] = 5 /\ roles.pos[3] = 10 /\ roles.pos[4] = 3
    /\ resolved.role = 2
    /\ counted7 = [roleId |-> 2, count |-> 1]

\* The non-bot members lacking the verified role.
UnverifiedIds == {id \in DOMAIN members : ~members[id].bot /\ config.verifiedRoleId \notin members[id].roles}

\* C11: in a !count pass of the claimed-set variant no non-bot member lacking
\* the verified role is in a per-role bucket, whatever the member's effective
\* role, and each such member is counted in the unverified count.
C11_UnverifiedNeverInBucket ==
    CountsReady =>
        /\ UnverifiedIds \cap BucketMembers = {}
        /\ cmd.response.unverified = Cardinality(UnverifiedIds)

\* C11 witness: a non-bot member lacks the verified role, its effective role
\* is a tracked role that the pass reports, and the pass counts it as
\* unverified.
C11_Witness ==
    /\ CountsReady
    /\ \E id \in UnverifiedIds :
          \E i \in DOMAIN cmd.perRole :
              cmd.perRole[i].roleId = EffectiveRole(roles, members[id], config.ignoredRoleId)
    /\ cmd.response.unverified > 0

\* C12 (as claimed): for one member snapshot and one tracked role id, the
\* count the scheduled pass of index8.js puts into the role's channel name is
\* the count the count command reports for the role. (The guild's members do
\* not change in these runs, so every snapshot taken is the same one.)
C12_CallSitesAgree ==
    cmd8.response.kind = "counts" =>
        \A u \in DOMAIN job.channelUpdates :
            \A l \in DOMAIN cmd8.response.lines :
                job.channelUpdates[u].roleId = cmd8.response.lines[l].roleId
                    => job.channelUpdates[u].count = cmd8.response.lines[l].count

\* The guild member fetches in flight: one for each caller of
\* cache.getMembers waiting in cache.refresh.
FetchesInFlight ==
    (IF job.pc = "fetching" THEN 1 ELSE 0) + (IF cmd8.pc = "fetching" THEN 1 ELSE 0)

\* C13 (as claimed): at most one guild member fetch is in flight at any
\* time, also when the scheduled pass and a count command both call
\* cache.getMembers while the cache is empty or stale.
C13_SingleFetchInFlight == FetchesInFlight <= 1

\* Every rename the pass has queued, every name it has set and every count
\* response come from a complete member snapshot, the one the cache stores.
NoPartialResults ==
    /\ job.pc \in {"renaming", "pausing"} =>
          /\ cache.members # {}
          /\ job.channelUpdates = ChannelUpdates(Cached(cache), config, channels)
    /\ \A c \in DOMAIN channelName :
          channelName[c].count # None =>
              /\ cache.members # {}
              /\ \E u \in DOMAIN ChannelUpdates(Cached(cache), config, channels) :
                    LET update == ChannelUpdates(Cached(cache), config, channels)[u]
                    IN  update.channel = c /\ update.count = channelName[c].count
    /\ cmd8.response.kind = "counts" =>
          /\ cache.members # {}
          /\ cmd8.response = CountResponse8(Cached(cache), config, roles, cmd8.n)
    /\ cmd8.response.kind = "error" => cmd8.response = [kind |-> "error"]

\* A failed member fetch ends the pass with nothing queued, or leaves the
\* command with the error text alone to send; the cache's snapshot and
\* lastUpdate and the channel names stay as they were.
FetchFailureLeavesState ==
    (ScheduledFetchFailed \/ Count8FetchFailed) =>
        /\ cache' = cache
        /\ channelName' = channelName
        /\ (job.pc = "fetching" /\ job' # job) => job' = JobIdle
        /\ (cmd8.pc = "fetching" /\ cmd8' # cmd8) =>
              (cmd8'.pc = "sending" /\ cmd8'.response = [kind |-> "error"])

\* C14: in index8.js a failed member fetch surfaces an error instead of
\* partial results: the scheduled pass renames no channel, the count command
\* sends only the error text, and the cache's snapshot and lastUpdate are
\* unchanged.
C14_FetchFailureNoPartialResults ==
    []NoPartialResults /\ [][FetchFailureLeavesState]_vars

\* C14 witness: the command's fetch failed while the cache held a stale
\* snapshot, which is still there, and the error text is about to be sent.
C14_Witness ==
    /\ cmd8.pc = "sending"
    /\ cmd8.response.kind = "error"
    /\ cache.members # {}
    /\ IsStale(cache, now)
    /\ job.pc = "idle"

\* What a step of index7.js computes is what the same invocation computes on
\* a MemberStats of its own: a !count response from the collection its
\* fetch returned, the pass's total from the collection its fetch returned,
\* and the pass's count for a scheduled role from that collection as it is
\* when the role is counted.
ComputedAsAlone ==
    /\ \A k \in CommandSlots :
          (cmd7[k].pc = "fetching" /\ cmd7'[k].response.kind = "counts") =>
              cmd7'[k].response = CountResponse7(members, roles, config, NewMemberStats).response
    /\ (job7.pc = "fetching" /\ job7'.pc = "renamingTotal") =>
          job7'.pending = TotalMembers(members)
    /\ (job7'.pc = "renaming" /\ (job7.pc # "renaming" \/ job7.i # job7'.i)) =>
          job7'.pending = GetRoleMemberCount(job7'.snapshot, roles,
                              config.scheduledRoles[job7'.i], config.ignoredRoleId)

\* C15: in index7.js, whatever way a scheduled pass and !count commands
\* interleave on the shared stats object, each invocation computes the total
\* and the per-role counts it computes when it runs alone on the members its
\* own fetch returned.
C15_SharedStatsDoNotLeak == [][ComputedAsAlone]_vars

\* C15 witness: two !count responses computed from different member
\* collections wait to be sent while the pass is renaming a role channel, and
\* the shared stats hold the claimed members of the later command.
C15_Witness ==
    /\ \A k \in CommandSlots : cmd7[k].pc = "sending" /\ cmd7[k].response.kind = "counts"
    /\ cmd7["first"].response.totalMembers # cmd7["second"].response.totalMembers
    /\ job7.pc = "renaming"
    /\ stats.countedMembers # {}

\* C16 (as claimed): the per-role counts a scheduled updateChannelNames pass
\* of the claimed-set variant has put into channel names never sum to more
\* than the total the same pass has put into the total channel's name, also
\* when members join, leave or change roles between the renames.
C16_PerRoleWithinTotal ==
    job6.total # None => SumSeq(job6.counts) <= job6.total

\* C17 (as claimed): the effective role getEffectiveRole returns for a
\* member depends on the member's roles and their positions only: with the
\* same roles and positions stored in another order of the collection the
\* result is the same, also when roles share a position.
C17_StorageOrderIrrelevant ==
    resolved.id # None =>
        \A cat \in ResolverCatalogues :
            cat.pos = roles.pos =>
                GetEffectiveRole(cat, members[resolved.id], config.ignoredRoleId) = resolved.role

\* C18 (as claimed): in a !count pass of countMembersWithHighestRole no
\* member is credited to a tracked role whose managed flag is set.
C18_ManagedRoleNeverCredited ==
    CountsReady =>
        \A i \in DOMAIN cmd.perRole :
            roles.managed[cmd.perRole[i].roleId] => cmd.perRole[i].count = 0

\* C20 (as claimed): in index7.js the count for the ignored role is 0, in
\* the scheduled pass and in the !count response, when the ignored role is
\* among the scheduled or counted roles.
C20_IgnoredRoleCountIsZero ==
    /\ (job7.pc = "renaming" /\ config.scheduledRoles[job7.i] = config.ignoredRoleId)
          => job7.pending = 0
    /\ \A k \in CommandSlots :
          cmd7[k].response.kind = "counts" =>
              \A l \in DOMAIN cmd7[k].response.lines :
                  cmd7[k].response.lines[l].roleId = config.ignoredRoleId
                      => cmd7[k].response.lines[l].count = 0

\* A step in which a handler of part_002 gets the guild's members (its fetch
\* resolved and filled the cache, or the command found them cached) ends
\* with a count for every tracked role: a queued rename for each configured
\* role whose role and channel exist, a line for each configured role the
\* command was asked for that exists.
CompletesWithEveryRole ==
    /\ (job.pc = "fetching" /\ job' # job /\ cache' # cache) =>
          /\ job'.pc = "renaming"
          /\ \A i \in DOMAIN config.roles :
                (config.roles[i] \in GuildRoleIds(roles) /\ i \in channels) =>
                    \E u \in DOMAIN job'.channelUpdates : job'.channelUpdates[u].channel = i
    /\ (cmd8' # cmd8 /\ ((cmd8.pc = "fetching" /\ cache' # cache)
                         \/ (cmd8.pc = "idle" /\ CacheHit(cache, now)))) =>
          /\ cmd8'.response.kind = "counts"
          /\ \A i \in 1..RolesToProcess(cmd8'.n, config) :
                config.roles[i] \in GuildRoleIds(roles) =>
                    \E l \in DOMAIN cmd8'.response.lines :
                        cmd8'.response.lines[l].roleId = config.roles[i]

\* C19 (as claimed): in the getEffectiveRole-based variant a member whose
\* effective role is none is attributed to no bucket, and the scheduled pass
\* and the count command complete normally with a count for every tracked
\* role.
C19_NoEffectiveRoleTolerated ==
    [][EffectiveRoleIdThrows(members, roles, config.ignoredRoleId) => CompletesWithEveryRole]_vars

\* The non-bot members whose effective role (utils.getEffectiveRole: the
\* highest role, falling through the ignored role) is roleId.
EffectiveRoleMembers(roleId) ==
    {id \in DOMAIN members :
        /\ ~members[id].bot
        /\ GetEffectiveRole(roles, members[id], config.ignoredRoleId) = roleId}

\* C21 (as claimed): in the cached-snapshot variant every per-role count of
\* the count command's response equals the number of non-bot members whose
\* effective role is that role id, so a member holding several tracked
\* roles is counted for exactly one of them.
C21_CountIsEffectiveRoleCount ==
    cmd8.response.kind = "counts" =>
        \A l \in DOMAIN cmd8.response.lines :
            cmd8.response.lines[l].count =
                Cardinality(EffectiveRoleMembers(cmd8.response.lines[l].roleId))

\* A snapshot exists and was stored at most maxAge ago.
SnapshotFresh ==
    /\ cache.members # {}
    /\ cache.lastUpdate # None
    /\ now - cache.lastUpdate <= MaxAge

\* The step stored the members fetched from the guild, at the current time.
FreshSnapshotStored ==
    cache' = [members |-> {SimplifiedMembers(members, roles)}, lastUpdate |-> now]

\* The steps of cache.getMembers in the pass and in the count command: the
\* call answers from the stored snapshot, leaving the cache alone, exactly
\* when the snapshot is fresh, and starts a fetch otherwise; the fetch
\* resolving stores the fetched snapshot and the caller computes from it.
GetMembersServesFreshOnly ==
    /\ (job.pc = "idle" /\ job' # job) =>
          /\ cache' = cache
          /\ IF SnapshotFresh
             THEN /\ job'.pc = "renaming"
                  /\ job'.channelUpdates = ChannelUpdates(Cached(cache), config, channels)
             ELSE job'.pc = "fetching"
    /\ (job.pc = "fetching" /\ job'.pc = "renaming") =>
          /\ FreshSnapshotStored
          /\ job'.channelUpdates = ChannelUpdates(Cached(cache'), config, channels)
    /\ (cmd8.pc = "idle" /\ cmd8' # cmd8) =>
          /\ cache' = cache
          /\ IF SnapshotFresh
             THEN /\ cmd8'.pc = "sending"
                  /\ cmd8'.response = CountResponse8(Cached(cache), config, roles, cmd8'.n)
             ELSE cmd8'.pc = "fetching"
    /\ (cmd8.pc = "fetching" /\ cmd8'.response.kind = "counts") =>
          /\ FreshSnapshotStored
          /\ cmd8'.response = CountResponse8(Cached(cache'), config, roles, cmd8.n)

\* C22: cache.getMembers returns the stored snapshot without fetching
\* exactly when a snapshot exists and was stored at most maxAge ago;
\* otherwise it fetches and stores a fresh snapshot before returning. So
\* no pass or command computes from a snapshot stored more than maxAge
\* before it started.
C22_GetMembersServesFreshOnly == [][GetMembersServesFreshOnly]_vars

\* A pass renames from the snapshot stored exactly maxAge before, while
\* the command, started a tick later, waits for its fetch.
C22_Witness ==
    /\ job.pc = "renaming"
    /\ cache.lastUpdate = 2 * TickMs - MaxAge
    /\ cmd8.pc = "fetching"
    /\ now - cache.lastUpdate > MaxAge

\* The verified non-bot members whose highest-position role is roleId.
HighestRoleMembers(roleId) ==
    {id \in VerifiedMembers : HighestRole(roles, members[id]) = roleId}

\* C23: with ignoredRoleId unset no role is treated as ignored. In a !count
\* pass every bucket holds exactly the verified non-bot members whose
\* highest-position role is the bucket's role id (and nothing when an
\* earlier bucket of the same id took them), and getRoleMemberCount counts
\* for every role the non-bot members whose highest role it is.
C23_UnsetIgnoredRoleIgnoresNothing ==
    (CountsReady /\ config.ignoredRoleId = None) =>
        /\ \A i \in DOMAIN cmd.perRole :
              cmd.perRole[i].memberIds =
                  IF \E k \in 1..(i - 1) : cmd.perRole[k].roleId = cmd.perRole[i].roleId
                  THEN {}
                  ELSE HighestRoleMembers(cmd.perRole[i].roleId)
        /\ \A r \in GuildRoleIds(roles) :
              GetRoleMemberCount(members, roles, r, config.ignoredRoleId) =
                  Cardinality({id \in DOMAIN members :
                      ~members[id].bot /\ HighestRole(roles, members[id]) = r})

\* C23 witness: no ignored role configured, and a pass credits a member to
\* role 4, its highest role, the member also holding role 3, which is
\* tracked as well.
C23_Witness ==
    /\ CountsReady
    /\ config.ignoredRoleId = None
    /\ \E i \in DOMAIN cmd.perRole :
          /\ cmd.perRole[i].roleId = 4
          /\ \E id \in cmd.perRole[i].memberIds : 3 \in members[id].roles
    /\ 3 \in Range(config.countRoles)

\* The tracked list names no role id twice.
PairwiseDistinct(s) == \A i, j \in DOMAIN s : i # j => s[i] # s[j]

\* The orderings of a list of pairwise distinct ids.
Reorderings(s) == {p \in [DOMAIN s -> Range(s)] : Range(p) = Range(s)}

\* The role loop of the pass over the tracked list in the order given.
PerRoleInOrder(countRoles) ==
    CountRolesLoop(members, roles, [config EXCEPT !.countRoles = countRoles],
                   TotalMembers(members), 1,
                   [perRole |-> <<>>, globalCountedMembers |-> {},
                    totalRoleCount |-> 0]).perRole

\* C24: with pairwise distinct tracked ids the count per role id of a
\* !count pass is the same for every order of the tracked list, and every
\* bucket is the one countMembersWithHighestRole fills for its role id from
\* a fresh empty claimed set.
C24_TrackedOrderIrrelevant ==
    (CountsReady /\ PairwiseDistinct(config.countRoles)) =>
        /\ \A p \in Reorderings(config.countRoles) :
              LET other == PerRoleInOrder(p) IN
              \A i \in DOMAIN cmd.perRole :
                  \E k \in DOMAIN other :
                      /\ other[k].roleId = cmd.perRole[i].roleId
                      /\ other[k].count = cmd.perRole[i].count
        /\ \A i \in DOMAIN cmd.perRole :
              cmd.perRole[i].memberIds =
                  CountMembersWithHighestRole(members, roles, cmd.perRole[i].roleId,
                      config.verifiedRoleId, config.ignoredRoleId, {}).memberIds

\* C24 witness: a pass over three distinct tracked roles whose second bucket
\* holds a member falling through the ignored role, the claimed set holding
\* another member from the first bucket.
C24_Witness ==
    /\ CountsReady
    /\ config.countRoles = <<2, 3, 4>>
    /\ cmd.perRole[1].count > 0
    /\ \E id \in cmd.perRole[2].memberIds :
          HighestRole(roles, members[id]) = config.ignoredRoleId

\* The slot of the updateChannelNames call that started last.
LastPass == CHOOSE p \in PassSlots : passes[p].started = passCount

\* No updateChannelNames call is in flight.
AllPassesFinished == \A p \in PassSlots : passes[p].pc \in {"idle", "done"}

\* C25 (as claimed): in index8.js, once all in-flight passes have finished,
\* every counter channel's name reflects the counts computed by the pass
\* that started last. Stated for the channels the last pass renamed
\* successfully only, which the claim includes.
C25_LastPassWins ==
    (passCount > 0 /\ AllPassesFinished) =>
        \A u \in DOMAIN passes[LastPass].channelUpdates :
            LET update == passes[LastPass].channelUpdates[u] IN
            update.channel \in passes[LastPass].renamed
                => channelName[update.channel].count = update.count

\* A step of the update loop of the pass: the queue is kept and the loop
\* stays at its update or moves to the one after it, and the pass ends only
\* from its last update.
UpdateLoopInQueueOrder ==
    (job.pc \in {"renaming", "pausing"} /\ job' # job) =>
        \/ /\ job'.pc \in {"renaming", "pausing"}
           /\ job'.channelUpdates = job.channelUpdates
           /\ job'.next \in {job.next, job.next + 1}
           /\ job'.next <= Len(job.channelUpdates)
           /\ (job'.next = job.next) = (job.pc = "renaming" /\ job'.pc = "pausing")
        \/ /\ job' = JobIdle
           /\ job.next = Len(job.channelUpdates)

\* C26: in index8.js a failing rename of one channel does not abort the
\* pass: from a rename the loop goes on, with or without the name set, to
\* the next queued update, and every queued update is attempted in queue
\* order before the pass ends.
C26_FailedRenameDoesNotAbort == [][UpdateLoopInQueueOrder]_vars

\* C26 witness: the third update of a pass is being renamed, the rename of
\* the first having failed (its channel was never named) and that of the
\* second having succeeded.
C26_Witness ==
    /\ job.pc = "renaming"
    /\ job.next = 3
    /\ channelName[job.channelUpdates[1].channel].count = None
    /\ channelName[job.channelUpdates[2].channel].count # None

\* The handle call in slot s calls command.execute in this step.
ExecuteStarts(s) == handling[s].pc # "executing" /\ handling'[s].pc = "executing"

\* C27: for a command registered with a cooldown, command.execute is never
\* started for a user less than cooldown ms after it was last started for
\* the same user, whatever the interleaving of the messages being handled,
\* in index8.js, part_002 and index9.js.
C27_CooldownBetweenExecutions ==
    [][\A s \in DOMAIN handling :
          (ExecuteStarts(s) /\ config.cooldown # 0) =>
              LET u == handling'[s].user IN
              u \in DOMAIN lastExecuted => now - lastExecuted[u] >= config.cooldown]_vars

\* C27 witness: two messages of one user are in the handler, one executing
\* and started exactly cooldown ms after the user's first execution, the
\* other told to wait.
C27_Witness ==
    /\ config.cooldown # 0
    /\ \E s, o \in DOMAIN handling :
          /\ handling[s].pc = "executing"
          /\ handling[o].pc = "replying"
          /\ handling[o].user = handling[s].user
          /\ lastExecuted[handling[s].user] = TickMs + Cooldown
    /\ replied = "wait"
    /\ messagesLeft = 0

\* The handle call in slot s learns in this step that its attempt is
\* rejected: canMakeRequest returned false, or the cooldown check did.
AttemptRejected(s) ==
    \/ handling[s].pc = "idle" /\ handling'[s].pc = "limited" /\ ~handling'[s].allowed
    \/ handling[s].pc # "replying" /\ handling'[s].pc = "replying"

AcceptedInWindow(key, n, t) ==
    {i \in 1..n : t - MapGet(accepted, key, <<>>)[i] < TimeWindow}

\* C29: canMakeRequest accepts at most maxRequests per key within any
\* sliding window of timeWindow: whenever it returns true fewer than
\* maxRequests earlier accepted requests of the key lie within the
\* preceding window, and every accepted request has at most maxRequests
\* accepted ones, itself included, in the window that ends with it.
C29_AtMostMaxRequestsPerWindow ==
    /\ [](\A key \in DOMAIN accepted :
            \A i \in DOMAIN accepted[key] :
                Cardinality(AcceptedInWindow(key, i, accepted[key][i])) <= MaxRequests)
    /\ [][\A s \in DOMAIN handling :
            (handling[s].pc = "idle" /\ handling'[s].pc = "limited" /\ handling'[s].allowed)
                => Cardinality(AcceptedInWindow(handling'[s].user,
                       Len(MapGet(accepted, handling'[s].user, <<>>)), now)) < MaxRequests]_vars

\* C29 witness: the key has maxRequests + 1 accepted requests, the last one
\* exactly timeWindow after the first, and a request in between was
\* rejected.
C29_Witness ==
    /\ 1 \in DOMAIN accepted
    /\ Len(accepted[1]) = MaxRequests + 1
    /\ accepted[1][MaxRequests + 1] - accepted[1][1] = TimeWindow
    /\ replied = "rate limited"

\* The messages of the fs.appendFile calls in flight.
InFlight == UNION {Range(appending[i]) : i \in DOMAIN appending}

\* At most one processWriteQueue loop has an appendFile in flight, and only
\* while isWriting is set; the file holds messages in enqueue order, none
\* twice; every enqueued message is in exactly one place: the queue, the
\* batch in flight, the file, or a batch whose append failed.
WriteQueueSafe ==
    /\ Len(appending) <= 1
    /\ isWriting = (appending # <<>>)
    /\ \A i, j \in DOMAIN logFile : i < j => logFile[i] < logFile[j]
    /\ \A i, j \in DOMAIN writeQueue : i < j => writeQueue[i] < writeQueue[j]
    /\ Range(writeQueue) \cup InFlight \cup Range(logFile) \cup lost = 1..enqueued
    /\ Cardinality(Range(writeQueue)) + Cardinality(InFlight)
           + Cardinality(Range(logFile)) + Cardinality(lost) = enqueued
    /\ \A a \in Range(logFile) \cup lost : \A b \in InFlight : a < b
    /\ \A a \in InFlight : \A b \in Range(writeQueue) : a < b

\* C30: in the Logger's write queue at most one processWriteQueue loop (one
\* appendFile) is active at a time and messages are appended in enqueue
\* order, under every interleaving of writeToFile calls; when no append
\* fails every enqueued message is eventually appended, exactly once; and
\* the queue is left empty with isWriting false.
C30_WriteQueueDrainsInOrder ==
    /\ []WriteQueueSafe
    /\ \A m \in 1..MaxLogMessages :
          (enqueued >= m) ~> (m \in Range(logFile) \/ lost # {})
    /\ []<>(writeQueue = <<>> /\ ~isWriting)

\* C30 witness: a full batch is being appended after an earlier message
\* reached the file, and a message enqueued meanwhile waits in the queue.
C30_Witness ==
    /\ Len(appending) = 1
    /\ Len(appending[1]) = BatchSize
    /\ logFile = <<1>>
    /\ writeQueue # <<>>
    /\ isWriting

====
